---- MODULE Spec2Model ----
(***************************************************************************)
(* Tank-level engine of the kiran-backend API: the per-tank computation of  *)
(* GET /api/tank-current (buildTankResponseRow), the write path             *)
(* POST /api/transactions -> POST /api/update-data -> tank_status, and the  *)
(* endpoints that serve the stored tank_status rows.                        *)
(*                                                                         *)
(* Units of the fixed-point arithmetic (JavaScript doubles in the source):  *)
(*   lengths (diameter, length, ultra_height, depth)   decimetres (0.1 m)   *)
(*   volumes and safe limits                            decilitres (0.1 L)  *)
(*   tank_volume (capacity)                             litres              *)
(*   percentages                                        tenths of a percent *)
(*   instants and ages                                  milliseconds        *)
(*   minutes_since_last                                 tenths of a minute  *)
(* A volume is carried at the 0.1 L resolution of the reported values.      *)
(***************************************************************************)
EXTENDS Integers, Sequences, FiniteSets, TLC

VARIABLES Tank_Parameters, Transaction_Table, tank_status, inflight, now, resp,
          tanks_master, tank_specifications, pool

vars == <<Tank_Parameters, Transaction_Table, tank_status, inflight, now, resp,
          tanks_master, tank_specifications, pool>>

\* the state that only /api/tank-update reads and writes: its two tables and
\* the connections of the pool that are checked out
tankUpdateVars == <<tanks_master, tank_specifications, pool>>

\* a database without tank-update rows, every connection in the pool
NoTankUpdate ==
  /\ tanks_master = {}
  /\ tank_specifications = {}
  /\ pool = 0

(***************************************************************************)
(* JavaScript / SQL values: a tagged record, so that null, undefined, NaN   *)
(* and numbers can be compared with each other.                             *)
(***************************************************************************)
Num(x) == [k |-> "num", v |-> x]

JNull == [k |-> "null", v |-> 0]

JUndef == [k |-> "undef", v |-> 0]

JNaN == [k |-> "nan", v |-> 0]

DateAt(t) == [k |-> "date", v |-> t]

InvalidDate == [k |-> "invalid", v |-> 0]

\* a string value (the ul_status of a reading)
Str(x) == [k |-> "str", v |-> x]

\* x == null / x != null of JavaScript: true of null and of undefined
IsNullish(x) == x.k \in {"null", "undef"}

\* Number(x): null -> 0, undefined -> NaN, a number -> itself
ToNumber(x) == IF x.k = "num" THEN x ELSE IF x.k = "null" THEN Num(0) ELSE JNaN

\* Number.isFinite(x)
IsFinite(x) == x.k = "num"

\* Number(x) || 0 : NaN and 0 are falsy
NumberOrZero(x) == IF ToNumber(x).k = "num" THEN ToNumber(x).v ELSE 0

\* x ?? d
Coalesce(x, d) == IF IsNullish(x) THEN d ELSE x

Max(a, b) == IF a >= b THEN a ELSE b

Min(a, b) == IF a <= b THEN a ELSE b

\* n / d rounded to the nearest integer, halves away from zero: what
\* Number(x.toFixed(..)) and Math.round do on the values of the model
RoundDiv(n, d) == IF n >= 0 THEN (2 * n + d) \div (2 * d) ELSE -((2 * (-n) + d) \div (2 * d))

(***************************************************************************)
(* Math library in fixed point.                                             *)
(***************************************************************************)
\* Math.PI in 1e-4
PI_E4 == 31416

\* Math.acos(k/10) in 1e-4 rad, k = -10 .. 10 (entry k + 11)
AcosTenths == <<31416, 26906, 24981, 23462, 22143, 20944, 19823, 18755, 17722, 16710,
                15708, 14706, 13694, 12661, 11593, 10472, 9273, 7954, 6435, 4510, 0>>

\* Math.acos(n / d) in 1e-4 rad; n / d is a multiple of 0.1 for every geometry
\* of the model
MathAcosE4(n, d) == AcosTenths[((10 * n) \div d) + 11]

RECURSIVE ISqrtFrom(_, _, _)
ISqrtFrom(n, lo, hi) ==
  IF lo >= hi THEN lo
  ELSE LET mid == (lo + hi + 1) \div 2
       IN IF mid * mid <= n THEN ISqrtFrom(n, mid, hi) ELSE ISqrtFrom(n, lo, mid - 1)

\* Math.sqrt(n) in 1e-3, n a non-negative integer below 2000
MathSqrtE3(n) == ISqrtFrom(n * 1000000, 0, 46340)

(***************************************************************************)
(* tankCurrent.js                                                           *)
(***************************************************************************)
\* the full branch of line 16 answering 0
horizontalCylinderVolume_noFull(D, L, h) ==
  IF h <= 0 THEN 0
  ELSE IF h >= D THEN 0
  ELSE LET term1 == D * D * MathAcosE4(D - 2 * h, D)
           term2 == 2 * (D - 2 * h) * MathSqrtE3(h * (D - h)) * 10
           area == term1 - term2
       IN RoundDiv(L * area, 4000)

\* horizontalCylinderVolume(D, L, h) * 1000: the volume in dL of a horizontal
\* cylinder of diameter D and length L filled to depth h (all in dm).
\* With R = D/2: 4 * area = D^2 * acos((D - 2h)/D) - 2 (D - 2h) sqrt(h (D - h)).
horizontalCylinderVolume(D, L, h) ==
  IF h <= 0 THEN 0
  ELSE IF h >= D THEN RoundDiv(PI_E4 * D * D * L, 4000)
  ELSE LET term1 == D * D * MathAcosE4(D - 2 * h, D)
           term2 == 2 * (D - 2 * h) * MathSqrtE3(h * (D - h)) * 10
           area == term1 - term2
       IN RoundDiv(L * area, 4000)

\* the two limit checks in the other order
statusFromLimits_lowFirst(actualL, minL, maxL) ==
  IF IsNullish(actualL) THEN [tank_status |-> "Unknown", tank_alert_message |-> "No reading"]
  ELSE IF IsNullish(minL) /\ IsNullish(maxL)
    THEN [tank_status |-> "OK", tank_alert_message |-> "Normal"]
  ELSE IF ~IsNullish(minL) /\ actualL.v <= minL.v
    THEN [tank_status |-> "Warning", tank_alert_message |-> "Low level"]
  ELSE IF ~IsNullish(maxL) /\ actualL.v >= maxL.v
    THEN [tank_status |-> "Warning", tank_alert_message |-> "High level"]
  ELSE [tank_status |-> "OK", tank_alert_message |-> "Normal"]

\* statusFromLimits(actualL, minL, maxL): arguments are null or numbers
statusFromLimits(actualL, minL, maxL) ==
  IF IsNullish(actualL) THEN [tank_status |-> "Unknown", tank_alert_message |-> "No reading"]
  ELSE IF IsNullish(minL) /\ IsNullish(maxL)
    THEN [tank_status |-> "OK", tank_alert_message |-> "Normal"]
  ELSE IF ~IsNullish(maxL) /\ actualL.v >= maxL.v
    THEN [tank_status |-> "Warning", tank_alert_message |-> "High level"]
  ELSE IF ~IsNullish(minL) /\ actualL.v <= minL.v
    THEN [tank_status |-> "Warning", tank_alert_message |-> "Low level"]
  ELSE [tank_status |-> "OK", tank_alert_message |-> "Normal"]

\* const MAX_HEIGHT_M = 17.9 (dm)
MAX_HEIGHT_M == 179

\* const WIDTH_M = 8.9 (dm)
WIDTH_M == 89

\* const LENGTH_M = 5.15 (cm); WIDTH_M * LENGTH_M * depth is then in dL
LENGTH_M == 515

\* minutesSinceLast > 30
STALE_MINUTES == 30

\* (1000 * 60) ms in a minute
MS_PER_MINUTE == 60000

\* new Date(NaN).toISOString() throws RangeError
RangeError == [threw |-> "RangeError"]

Threw(r) == "threw" \in DOMAIN r

\* a staleness test that a bug would make inclusive (>= 30 minutes)
isStaleAge_inclusive(ageMs) == ageMs >= STALE_MINUTES * MS_PER_MINUTE

\* isStale = minutesSinceLast > 30, minutesSinceLast = ageMs / (1000 * 60)
isStaleAge(ageMs) == ageMs > STALE_MINUTES * MS_PER_MINUTE

\* a guard that a bug would leave out: the classifier's tag is kept when stale
staleOverride_none(isStale, rawVolumeL, minL, maxL) ==
  [effectiveVolumeL |-> rawVolumeL] @@ statusFromLimits(rawVolumeL, minL, maxL)

\* lines 113-126: the 30-minute rule applied to the raw volume
staleOverride(isStale, rawVolumeL, minL, maxL) ==
  IF isStale
    THEN [effectiveVolumeL |-> Num(0), tank_status |-> "Inactive",
          tank_alert_message |-> "No reading in last 30 minutes"]
    ELSE [effectiveVolumeL |-> rawVolumeL] @@ statusFromLimits(rawVolumeL, minL, maxL)

\* a depth without the clamps
resolveDepth_unclamped(tankNo, D, sensor) ==
  IF IsNullish(sensor) THEN JNull
  ELSE IF tankNo = "FIRE-TANK" THEN Num(MAX_HEIGHT_M - sensor.v)
  ELSE IF D > 0 THEN Num(D - sensor.v)
  ELSE JNull

\* lines 71-86: water depth from the bottom
resolveDepth(tankNo, D, sensor) ==
  IF IsNullish(sensor) THEN JNull
  ELSE IF tankNo = "FIRE-TANK" THEN Num(Min(Max(MAX_HEIGHT_M - sensor.v, 0), MAX_HEIGHT_M))
  ELSE IF D > 0 THEN Num(Min(Max(D - sensor.v, 0), D))
  ELSE JNull

\* lines 88-102: raw volume (dL) from the depth
rawVolume(tankNo, D, L, depth) ==
  IF IsNullish(depth) THEN JNull
  ELSE IF tankNo = "FIRE-TANK" THEN Num(WIDTH_M * LENGTH_M * depth.v)
  ELSE IF D > 0 /\ L > 0 THEN Num(horizontalCylinderVolume(D, L, depth.v))
  ELSE JNull

\* a fill percentage that a bug would take from the raw volume
fillPercentage_raw(capacityL, effectiveVolumeL, rawVolumeL) ==
  IF ~IsNullish(capacityL) /\ capacityL.v > 0 /\ ~IsNullish(rawVolumeL)
    THEN Num(RoundDiv(rawVolumeL.v * 100, capacityL.v))
    ELSE JNull

\* lines 128-131: fill percentage (tenths of a percent) of the effective volume
fillPercentage(capacityL, effectiveVolumeL, rawVolumeL) ==
  IF ~IsNullish(capacityL) /\ capacityL.v > 0 /\ ~IsNullish(effectiveVolumeL)
    THEN Num(RoundDiv(effectiveVolumeL.v * 100, capacityL.v))
    ELSE JNull

\* line 140: Number(minutesSinceLast.toFixed(1)), in tenths of a minute
minutesTenths(ageMs) == RoundDiv(ageMs * 10, MS_PER_MINUTE)

\* buildTankResponseRow(row), with now = new Date()
buildTankResponseRow(row, nowMs) ==
  LET lastTime == IF IsNullish(row.date_time) THEN JNull ELSE row.date_time
      valid == lastTime.k = "date"
      minutesSinceLast == IF valid THEN Num(nowMs - lastTime.v) ELSE JNull
      isStale == IF valid THEN isStaleAge(nowMs - lastTime.v) ELSE TRUE
      tankNo == row.tank_no
      D == ToNumber(Coalesce(row.diameter_breadth, Num(0))).v
      L == ToNumber(Coalesce(row.length, Num(0))).v
      capacityL == IF ~IsNullish(row.tank_volume) THEN row.tank_volume ELSE JNull
      sensor == IF ~IsNullish(row.ultra_height) THEN row.ultra_height ELSE JNull
      depth == resolveDepth(tankNo, D, sensor)
      rawVolumeL == rawVolume(tankNo, D, L, depth)
      maxL == IF ~IsNullish(row.upper_safe_limit_pct) THEN row.upper_safe_limit_pct ELSE JNull
      minL == IF ~IsNullish(row.lower_safe_limit_pct) THEN row.lower_safe_limit_pct ELSE JNull
      s == staleOverride(isStale, rawVolumeL, minL, maxL)
      fillPct == fillPercentage(capacityL, s.effectiveVolumeL, rawVolumeL)
  IN IF lastTime.k = "invalid" THEN RangeError
     ELSE [device_id |-> row.device_id,
           tank_no |-> row.tank_no,
           location |-> row.location,
           last_updated |-> lastTime,
           minutes_since_last |->
             IF ~IsNullish(minutesSinceLast)
               THEN Num(minutesTenths(minutesSinceLast.v)) ELSE JNull,
           stale |-> isStale,
           geometry |-> [diameter_m |-> D, length_m |-> L, capacity_l |-> capacityL],
           raw_reading |-> [ultra_height_m |-> sensor, water_depth_m |-> depth,
                            volume_l |-> rawVolumeL],
           effective |-> [volume_l |-> s.effectiveVolumeL, fill_percentage |-> fillPct],
           limits_l |-> [min_l |-> minL, max_l |-> maxL],
           tank_status |-> s.tank_status,
           tank_alert_message |-> s.tank_alert_message]

(***************************************************************************)
(* Tables.  Master_Tables is the configured fleet; Tank_Parameters and      *)
(* Transaction_Table are sets / sequences of rows.                          *)
(***************************************************************************)
Master_Tables ==
  <<[device_id |-> "D1", tank_no |-> "T1", location |-> "Plant"],
    [device_id |-> "D2", tank_no |-> "FIRE-TANK", location |-> "Yard"]>>

DeviceIds == {Master_Tables[i].device_id : i \in DOMAIN Master_Tables}

TankNos == {Master_Tables[i].tank_no : i \in DOMAIN Master_Tables}

\* the columns of p.* when the LEFT JOIN finds no Tank_Parameters row
NoParams ==
  [diameter_breadth |-> JNull, length |-> JNull, height |-> JNull, tank_volume |-> JNull,
   upper_safe_limit_pct |-> JNull, lower_safe_limit_pct |-> JNull]

\* the columns of t.* when the LEFT JOIN finds no Transaction_Table row
NoReading == [ultra_height |-> JNull, date_time |-> JNull, ul_status |-> JNull]

\* DATETIME order: the zero date (read back as an invalid Date) sorts first
DateKey(d) == IF d.k = "date" THEN d.v ELSE -1

\* tt1 INNER JOIN (SELECT device_id, MAX(date_time) ... GROUP BY device_id):
\* the positions of the rows of the device that carry its greatest date_time
LatestTx(table, deviceId) ==
  {i \in DOMAIN table :
     /\ table[i].device_id = deviceId
     /\ \A j \in DOMAIN table :
          table[j].device_id = deviceId => DateKey(table[j].date_time) <= DateKey(table[i].date_time)}

\* Master_Tables m LEFT JOIN Tank_Parameters p LEFT JOIN (latest reading) t,
\* for one master row: the set of joined rows
JoinedRows(m, params, table) ==
  LET P == {p \in params : p.tank_no = m.tank_no}
      T == LatestTx(table, m.device_id)
      PP == IF P = {} THEN {NoParams}
            ELSE {[diameter_breadth |-> p.diameter_breadth, length |-> p.length,
                   tank_volume |-> p.tank_volume,
                   upper_safe_limit_pct |-> p.upper_safe_limit_pct,
                   lower_safe_limit_pct |-> p.lower_safe_limit_pct] : p \in P}
      TT == IF T = {} THEN {NoReading}
            ELSE {[ultra_height |-> table[i].ultra_height, date_time |-> table[i].date_time] : i \in T}
  IN {[device_id |-> m.device_id, tank_no |-> m.tank_no, location |-> m.location] @@ p @@ t :
        p \in PP, t \in TT}

NoResponse == [endpoint |-> "none", status |-> 0]

\* GET /api/tank-current/current/:device_id
GetTankCurrent(deviceId) ==
  /\ IF \E i \in DOMAIN Master_Tables : Master_Tables[i].device_id = deviceId
       THEN \E i \in DOMAIN Master_Tables :
              /\ Master_Tables[i].device_id = deviceId
              /\ \E row \in JoinedRows(Master_Tables[i], Tank_Parameters, Transaction_Table) :
                   LET obj == buildTankResponseRow(row, now)
                   IN resp' = IF Threw(obj)
                                THEN [endpoint |-> "tank-current", device_id |-> deviceId,
                                      status |-> 500, error |-> "DB_READ_FAILED"]
                                ELSE [endpoint |-> "tank-current", device_id |-> deviceId,
                                      status |-> 200, data |-> obj]
       ELSE resp' = [endpoint |-> "tank-current", device_id |-> deviceId,
                     status |-> 404, error |-> "NO_DEVICE"]
  /\ UNCHANGED <<Tank_Parameters, Transaction_Table, tank_status, inflight, now>>
  /\ UNCHANGED tankUpdateVars

\* the orders in which a query without a full ORDER BY may return the rows S
SeqsOf(S) ==
  {q \in [1..Cardinality(S) -> S] : \A x \in S : \E i \in DOMAIN q : q[i] = x}

\* the result sets of the query of GET /all: the joined rows of every master
\* row, ORDER BY m.device_id
RECURSIVE AllJoinedRows(_, _, _)
AllJoinedRows(i, params, table) ==
  IF i > Len(Master_Tables) THEN {<<>>}
  ELSE {a \o b : a \in SeqsOf(JoinedRows(Master_Tables[i], params, table)),
                  b \in AllJoinedRows(i + 1, params, table)}

\* GET /api/tank-current/all: rows.map(buildTankResponseRow); an exception in
\* the map fails the whole request
GetTankCurrentAll ==
  /\ \E rows \in AllJoinedRows(1, Tank_Parameters, Transaction_Table) :
       LET data == [k \in DOMAIN rows |-> buildTankResponseRow(rows[k], now)]
       IN resp' = IF \E k \in DOMAIN data : Threw(data[k])
                    THEN [endpoint |-> "tank-current-all", status |-> 500,
                          error |-> "DB_READ_FAILED"]
                    ELSE [endpoint |-> "tank-current-all", status |-> 200, data |-> data]
  /\ UNCHANGED <<Tank_Parameters, Transaction_Table, tank_status, inflight, now>>
  /\ UNCHANGED tankUpdateVars

(***************************************************************************)
(* updateData.js                                                            *)
(***************************************************************************)
\* horizontalCylinderVolumeLitres(D, L, h): D and L as read from the row
\* (undefined, null or a number), h a number; the result in dL
horizontalCylinderVolumeLitres(D, L, h) ==
  LET Dnum == ToNumber(D)
      Lnum == ToNumber(L)
  IN IF ~IsFinite(Dnum) \/ ~IsFinite(Lnum) THEN 0
     ELSE IF Dnum.v <= 0 \/ Lnum.v <= 0 THEN 0
     ELSE IF h <= 0 THEN 0
     ELSE LET hnum == IF h > Dnum.v THEN Dnum.v ELSE h
              areaSegment == Dnum.v * Dnum.v * MathAcosE4(Dnum.v - 2 * hnum, Dnum.v)
                             - 2 * (Dnum.v - 2 * hnum) * MathSqrtE3(hnum * (Dnum.v - hnum)) * 10
          IN RoundDiv(areaSegment * Lnum.v, 4000)

\* line 186 with the upper clamp a reader expects
cylinderDepth_clamped(D, ultraH) == Min(Max(0, ToNumber(D).v - ultraH), ToNumber(D).v)

\* line 186: const depth = Math.max(0, Number(D) - ultraH)
cylinderDepth(D, ultraH) == Max(0, ToNumber(D).v - ultraH)

\* lines 163-167: waterHeightM of the FIRE-TANK, clamped to [0, MAX_HEIGHT_M]
fireTankHeight(ultraH) == Min(Max(MAX_HEIGHT_M - ultraH, 0), MAX_HEIGHT_M)

\* lines 152-192: the locals of step 2; ultraH is Number(ultra_height)
computeLevel(tankNoTrimmed, ultraH, D, L, capacityLitres) ==
  IF tankNoTrimmed = "FIRE-TANK" /\ IsFinite(ultraH)
    THEN LET waterHeightM == fireTankHeight(ultraH.v)
             currentLevelLitres == WIDTH_M * LENGTH_M * waterHeightM
         IN [branch |-> "rectangular", depth |-> Num(waterHeightM),
             currentLevelLitres |-> currentLevelLitres,
             fillPercentage |-> IF capacityLitres > 0
                                  THEN RoundDiv(currentLevelLitres * 100, capacityLitres) ELSE 0]
  ELSE IF IsFinite(ultraH) /\ ~IsNullish(D) /\ ~IsNullish(L)
    THEN LET depth == cylinderDepth(D, ultraH.v)
             currentLevelLitres == horizontalCylinderVolumeLitres(D, L, depth)
         IN [branch |-> "cylinder", depth |-> Num(depth),
             currentLevelLitres |-> currentLevelLitres,
             fillPercentage |-> IF capacityLitres > 0
                                  THEN RoundDiv(currentLevelLitres * 100, capacityLitres) ELSE 0]
  ELSE [branch |-> "none", depth |-> JNull, currentLevelLitres |-> 0, fillPercentage |-> 0]

\* lines 197-225: status and alert from the safe limits
decideStatus(ultraH, capacityLitres, upperSafeLitres, lowerSafeLitres, currentLevelLitres) ==
  IF ~IsFinite(ultraH)
    THEN [flowStatus |-> "Inactive", tank_status |-> "No Data",
          tank_alert_message |-> "No valid level"]
  ELSE IF capacityLitres > 0
    THEN IF upperSafeLitres > 0 /\ currentLevelLitres >= upperSafeLitres
           THEN [flowStatus |-> "Normal", tank_status |-> "Warning",
                 tank_alert_message |-> "High level"]
         ELSE IF lowerSafeLitres > 0 /\ currentLevelLitres <= lowerSafeLitres
           THEN [flowStatus |-> "Normal", tank_status |-> "Warning",
                 tank_alert_message |-> "Low level"]
         ELSE [flowStatus |-> "Normal", tank_status |-> "OK", tank_alert_message |-> "Normal"]
  ELSE IF ultraH.v <= 0
    THEN [flowStatus |-> "Normal", tank_status |-> "Warning", tank_alert_message |-> "Low level"]
  ELSE [flowStatus |-> "Normal", tank_status |-> "OK", tank_alert_message |-> "Normal"]

\* rows of tank_status kept by the model
MaxStatusRows == 2

\* lines 75-114: the location stored with the row
resolveLocation(body, status, table) ==
  LET S == {i \in DOMAIN status : status[i].tank_no = body.tank_no}
      T == {i \in DOMAIN table : table[i].tank_no = body.tank_no}
  IN IF body.location # "" THEN body.location
     ELSE IF S # {} THEN status[CHOOSE i \in S : \A j \in S : j <= i].location
     ELSE IF T # {}
       THEN table[CHOOSE i \in T : \A j \in T :
                    DateKey(table[j].date_time) < DateKey(table[i].date_time)
                    \/ (DateKey(table[j].date_time) = DateKey(table[i].date_time) /\ j <= i)].location
     ELSE "Unknown"

\* tank_no.trim() on the tank numbers a request carries
Trim(tankNo) == IF tankNo = "FIRE-TANK " THEN "FIRE-TANK" ELSE tankNo

\* the row that POST /api/update-data computes from the request body and the
\* Tank_Parameters row, with the locals it was computed from
updateDataRow(body, params, status, table) ==
  LET P == {p \in params : p.tank_no = body.tank_no}
      hasParams == P # {}
      prow == IF hasParams THEN CHOOSE p \in P : TRUE ELSE NoParams
      D == IF hasParams THEN prow.diameter_breadth ELSE JUndef
      L == IF hasParams THEN prow.length ELSE JUndef
      capacityLitres == IF hasParams THEN NumberOrZero(prow.tank_volume) ELSE 0
      upperSafeLitres == IF hasParams THEN NumberOrZero(prow.upper_safe_limit_pct) ELSE 0
      lowerSafeLitres == IF hasParams THEN NumberOrZero(prow.lower_safe_limit_pct) ELSE 0
      ultraH == ToNumber(body.ultra_height)
      lv == computeLevel(Trim(body.tank_no), ultraH, D, L, capacityLitres)
      st == decideStatus(ultraH, capacityLitres, upperSafeLitres, lowerSafeLitres,
                         lv.currentLevelLitres)
  IN [row |-> [tank_no |-> body.tank_no,
               location |-> resolveLocation(body, status, table),
               currentLevel |-> lv.currentLevelLitres,
               fillPercentage |-> lv.fillPercentage,
               flowStatus |-> st.flowStatus,
               tank_status |-> st.tank_status,
               tank_alert_message |-> st.tank_alert_message,
               under_maintenance |-> 0,
               disable_alert |-> 0],
      locals |-> [ultra_height |-> body.ultra_height, ultraH |-> ultraH, D |-> D, L |-> L,
                  capacityLitres |-> capacityLitres, upperSafeLitres |-> upperSafeLitres,
                  lowerSafeLitres |-> lowerSafeLitres, branch |-> lv.branch, depth |-> lv.depth]]

\* the handler of POST /api/update-data on one request body
UpdateData(body) ==
  IF body.tank_no = ""
    THEN /\ resp' = [endpoint |-> "update-data", status |-> 400, error |-> "MISSING_FIELDS"]
         /\ UNCHANGED tank_status
    ELSE LET u == updateDataRow(body, Tank_Parameters, tank_status, Transaction_Table)
         IN /\ tank_status' = Append(tank_status, [id |-> Len(tank_status) + 1] @@ u.row)
            /\ resp' = [endpoint |-> "update-data", status |-> 200, tank_no |-> body.tank_no,
                        id |-> Len(tank_status) + 1, stored |-> u.row, locals |-> u.locals]

\* POST /api/update-data called by hand (Postman), with any body
PostUpdateData(body) ==
  /\ Len(tank_status) < MaxStatusRows
  /\ UpdateData(body)
  /\ UNCHANGED <<Tank_Parameters, Transaction_Table, inflight, now>>
  /\ UNCHANGED tankUpdateVars

\* the fire-and-forget call of POST /api/transactions arrives at /api/update-data
DeliverUpdateData(i) ==
  /\ i \in DOMAIN inflight
  /\ Len(tank_status) < MaxStatusRows
  /\ UpdateData(inflight[i])
  /\ inflight' = SubSeq(inflight, 1, i - 1) \o SubSeq(inflight, i + 1, Len(inflight))
  /\ UNCHANGED <<Tank_Parameters, Transaction_Table, now>>
  /\ UNCHANGED tankUpdateVars

\* the fire-and-forget call fails (connection refused, or the handler's catch
\* answers 500 UPDATE_DATA_FAILED): the caller logs the error and makes no
\* second attempt
FailUpdateData(i) ==
  /\ i \in DOMAIN inflight
  /\ inflight' = SubSeq(inflight, 1, i - 1) \o SubSeq(inflight, i + 1, Len(inflight))
  /\ resp' = [endpoint |-> "update-data", status |-> 500, error |-> "UPDATE_DATA_FAILED"]
  /\ UNCHANGED <<Tank_Parameters, Transaction_Table, tank_status, now>>
  /\ UNCHANGED tankUpdateVars

(***************************************************************************)
(* transactions.js                                                          *)
(***************************************************************************)
\* rows of Transaction_Table kept by the model
MaxTx == 2

\* calls of /api/update-data on their way
MaxInflight == 2

\* INSERT ... ON DUPLICATE KEY UPDATE, the key being (device_id, date_time)
UpsertTx(table, row) ==
  LET dup == {i \in DOMAIN table :
                table[i].device_id = row.device_id /\ table[i].date_time = row.date_time}
  IN IF dup = {} THEN Append(table, row)
     ELSE [i \in DOMAIN table |-> IF i \in dup THEN row ELSE table[i]]

\* POST /api/transactions; strict is the SQL mode of the server, which decides
\* whether a date_time MySQL cannot parse is refused or stored as the zero date
PostTransaction(body, strict) ==
  /\ Len(Transaction_Table) < MaxTx
  /\ Len(inflight) < MaxInflight
  /\ IF body.device_id = "" \/ body.tank_no = "" \/ body.location = ""
       THEN /\ resp' = [endpoint |-> "transactions", status |-> 400, error |-> "MISSING_FIELDS"]
            /\ UNCHANGED <<Transaction_Table, inflight>>
     ELSE IF body.device_id \notin DeviceIds
       THEN /\ resp' = [endpoint |-> "transactions", status |-> 400, error |-> "UNKNOWN_DEVICE_ID"]
            /\ UNCHANGED <<Transaction_Table, inflight>>
     ELSE IF body.date_time.k = "invalid" /\ strict
       THEN /\ resp' = [endpoint |-> "transactions", status |-> 500, error |-> "DB_WRITE_FAILED"]
            /\ UNCHANGED <<Transaction_Table, inflight>>
     ELSE /\ Transaction_Table' =
               UpsertTx(Transaction_Table,
                        [device_id |-> body.device_id, tank_no |-> body.tank_no,
                         location |-> body.location,
                         ultra_height |-> Coalesce(body.ultra_height, JNull),
                         date_time |-> Coalesce(body.date_time, DateAt(now)),
                         ul_status |-> JNull])
          /\ inflight' = Append(inflight, body)
          /\ resp' = [endpoint |-> "transactions", status |-> 200, updateDataTriggered |-> TRUE]
  /\ UNCHANGED <<Tank_Parameters, tank_status, now>>
  /\ UNCHANGED tankUpdateVars

(***************************************************************************)
(* deviceLatest.js, tankStatus.js: the stored tank_status rows              *)
(***************************************************************************)
\* latestStatusPerTank: the row of the tank with the greatest id
LatestStatus(status, tankNo) ==
  {i \in DOMAIN status :
     status[i].tank_no = tankNo /\ \A j \in DOMAIN status : status[j].tank_no = tankNo => j <= i}

\* the object built from one joined row (r.x ?? default)
storedCard(m, status, params) ==
  LET S == LatestStatus(status, m.tank_no)
      P == {p \in params : p.tank_no = m.tank_no}
      base == [device_id |-> m.device_id, location |-> m.location, tank_no |-> m.tank_no,
               tank_volume |-> IF P = {} THEN JNull ELSE (CHOOSE p \in P : TRUE).tank_volume]
  IN IF S = {}
       THEN base @@ [currentLevel |-> JNull, fillPercentage |-> JNull, flowStatus |-> "Inactive",
                     tank_status |-> "Inactive", tank_alert_message |-> "No Data",
                     under_maintenance |-> 0, disable_alert |-> 0]
       ELSE LET r == status[CHOOSE i \in S : TRUE]
            IN base @@ [currentLevel |-> Num(r.currentLevel),
                        fillPercentage |-> Num(r.fillPercentage),
                        flowStatus |-> r.flowStatus, tank_status |-> r.tank_status,
                        tank_alert_message |-> r.tank_alert_message,
                        under_maintenance |-> r.under_maintenance,
                        disable_alert |-> r.disable_alert]

\* GET /api/device-latest/:deviceId
GetDeviceLatest(deviceId) ==
  /\ IF deviceId \in DeviceIds
       THEN \E i \in DOMAIN Master_Tables :
              /\ Master_Tables[i].device_id = deviceId
              /\ resp' = [endpoint |-> "device-latest", device_id |-> deviceId, status |-> 200,
                          data |-> storedCard(Master_Tables[i], tank_status, Tank_Parameters)]
       ELSE resp' = [endpoint |-> "device-latest", device_id |-> deviceId, status |-> 404,
                     error |-> "device_id not found"]
  /\ UNCHANGED <<Tank_Parameters, Transaction_Table, tank_status, inflight, now>>
  /\ UNCHANGED tankUpdateVars

\* GET /api/tank-status/:deviceId (routes/tankStatus.js, mounted at /api/tank-status)
GetTankStatus(deviceId) ==
  /\ IF deviceId \in DeviceIds
       THEN \E i \in DOMAIN Master_Tables :
              /\ Master_Tables[i].device_id = deviceId
              /\ resp' = [endpoint |-> "tank-status", device_id |-> deviceId, status |-> 200,
                          data |-> <<storedCard(Master_Tables[i], tank_status, Tank_Parameters)>>]
       ELSE resp' = [endpoint |-> "tank-status", device_id |-> deviceId, status |-> 404,
                     error |-> "No tank data found for this device_id"]
  /\ UNCHANGED <<Tank_Parameters, Transaction_Table, tank_status, inflight, now>>
  /\ UNCHANGED tankUpdateVars

(***************************************************************************)
(* transactionHistoryBasic.js: GET /api/tanks/history                       *)
(***************************************************************************)
\* the positions in S in ascending order of date_time (ORDER BY tt.date_time)
RECURSIVE SortByDate(_, _)
SortByDate(table, S) ==
  IF S = {} THEN <<>>
  ELSE LET i == CHOOSE x \in S : \A y \in S :
                  DateKey(table[x].date_time) < DateKey(table[y].date_time)
                  \/ (DateKey(table[x].date_time) = DateKey(table[y].date_time) /\ x <= y)
       IN <<i>> \o SortByDate(table, S \ {i})

\* rows.map(...): one point of the history from a reading r joined with its
\* Tank_Parameters row p
historyRow(r, p) ==
  LET D == ToNumber(Coalesce(p.diameter_breadth, Num(0))).v
      L == ToNumber(Coalesce(p.length, Num(0))).v
      sensor == IF ~IsNullish(r.ultra_height) THEN r.ultra_height ELSE JNull
      tankVolumeL == IF ~IsNullish(p.tank_volume) THEN p.tank_volume.v ELSE 0
      depth == IF ~IsNullish(sensor) /\ D > 0
                 THEN Num(Min(Max(D - sensor.v, 0), D)) ELSE JNull
      volumeL == IF ~IsNullish(depth) /\ D > 0 /\ L > 0
                   THEN Num(horizontalCylinderVolume(D, L, depth.v)) ELSE JNull
      volumePct == IF ~IsNullish(volumeL) /\ tankVolumeL > 0
                     THEN Num(RoundDiv(volumeL.v * 100, tankVolumeL)) ELSE JNull
  IN [device_id |-> r.device_id, tank_no |-> r.tank_no, location |-> r.location,
      date_time |-> r.date_time, diameter_m |-> D, ultra_height_m |-> sensor,
      water_depth_m |-> depth, tank_volume_l |-> tankVolumeL,
      water_volume_l |-> volumeL, volume_percentage |-> volumePct]

\* GET /api/tanks/history?tank_no=..&start=..&end=.. with a range that holds
\* every dated reading; a reading stored with the zero date is in no range
GetTankHistory(tankNo) ==
  /\ LET P == {p \in Tank_Parameters : p.tank_no = tankNo}
         S == {i \in DOMAIN Transaction_Table :
                 Transaction_Table[i].tank_no = tankNo
                 /\ Transaction_Table[i].date_time.k = "date"}
         order == SortByDate(Transaction_Table, S)
     IN resp' = [endpoint |-> "history", tank_no |-> tankNo, status |-> 200,
                 history |-> IF P = {} THEN <<>>
                             ELSE [k \in DOMAIN order |->
                                     historyRow(Transaction_Table[order[k]],
                                                CHOOSE p \in P : TRUE)]]
  /\ UNCHANGED <<Tank_Parameters, Transaction_Table, tank_status, inflight, now>>
  /\ UNCHANGED tankUpdateVars

(***************************************************************************)
(* tank.js (routes/tanks.js): GET /api/cards                                *)
(***************************************************************************)
\* clamp that lets every n through
clamp_none(n, min, max) == n

\* clamp(n, min, max)
clamp(n, min, max) == Max(min, Min(max, n))

\* lines 202-206 with "Normal" for every level between the limits
metricsTag_normalBetween(levelNum, H, lowPct, upPct, tag) ==
  IF lowPct.k = "num" /\ upPct.k = "num"
    THEN IF levelNum >= upPct.v * H THEN Str("High")
         ELSE IF levelNum <= lowPct.v * H THEN Str("Low")
         ELSE Str("Normal")
    ELSE tag

\* lines 197-206: the tag from the safe limits; levelPct is levelNum / H in
\* tenths of a percent, lowPct and upPct are Number(limit ?? NaN)
metricsTag(levelNum, H, lowPct, upPct, tag) ==
  IF lowPct.k = "num" /\ upPct.k = "num"
    THEN IF levelNum >= upPct.v * H THEN Str("High")
         ELSE IF levelNum <= lowPct.v * H THEN Str("Low")
         ELSE IF IsNullish(tag) \/ tag = Str("") THEN Str("Normal")
         ELSE tag
    ELSE tag

\* computeMetrics with the free volume cut to whole litres (Math.floor)
computeMetrics_freeFloor(p, r) ==
  LET capacityL == ToNumber(Coalesce(p.tank_volume, Num(0))).v
      H == ToNumber(Coalesce(p.height, Num(0))).v
      ul == Coalesce(r.ultra_height, JNull)
      extTag == Coalesce(r.ul_status, JNull)
  IN IF H = 0 \/ IsNullish(ul)
       THEN [level_pct |-> JNull, working_volume_l |-> JNull, free_volume_l |-> JNull,
             capacity_l |-> capacityL, status_tag |-> extTag]
       ELSE LET liquidH == clamp(H - ToNumber(ul).v, 0, H)
                levelNum == liquidH * 1000
                lowPct == IF IsNullish(p.lower_safe_limit_pct) THEN JNaN
                          ELSE ToNumber(p.lower_safe_limit_pct)
                upPct == IF IsNullish(p.upper_safe_limit_pct) THEN JNaN
                         ELSE ToNumber(p.upper_safe_limit_pct)
            IN [level_pct |-> Num(RoundDiv(levelNum, H)),
                working_volume_l |-> Num(RoundDiv(capacityL * 10 * liquidH, H)),
                free_volume_l |-> Num(Max(capacityL * H - capacityL * liquidH, 0) \div H),
                capacity_l |-> capacityL,
                status_tag |-> metricsTag(levelNum, H, lowPct, upPct, extTag)]

\* computeMetrics(p, r)
computeMetrics(p, r) ==
  LET capacityL == ToNumber(Coalesce(p.tank_volume, Num(0))).v
      H == ToNumber(Coalesce(p.height, Num(0))).v
      ul == Coalesce(r.ultra_height, JNull)
      extTag == Coalesce(r.ul_status, JNull)
  IN IF H = 0 \/ IsNullish(ul)
       THEN [level_pct |-> JNull, working_volume_l |-> JNull, free_volume_l |-> JNull,
             capacity_l |-> capacityL, status_tag |-> extTag]
       ELSE LET liquidH == clamp(H - ToNumber(ul).v, 0, H)
                levelNum == liquidH * 1000
                lowPct == IF IsNullish(p.lower_safe_limit_pct) THEN JNaN
                          ELSE ToNumber(p.lower_safe_limit_pct)
                upPct == IF IsNullish(p.upper_safe_limit_pct) THEN JNaN
                         ELSE ToNumber(p.upper_safe_limit_pct)
            IN [level_pct |-> Num(RoundDiv(levelNum, H)),
                working_volume_l |-> Num(RoundDiv(capacityL * 10 * liquidH, H)),
                free_volume_l |-> Num(RoundDiv(Max(capacityL * H - capacityL * liquidH, 0), H)),
                capacity_l |-> capacityL,
                status_tag |-> metricsTag(levelNum, H, lowPct, upPct, extTag)]

\* rows.map(...) of GET /cards for one master row: Master_Tables LEFT JOIN
\* Tank_Parameters LEFT JOIN Transaction_Table JOIN (latest per device); the
\* last join keeps only the rows that carry a reading
cardsOf(m, params, table) ==
  LET P == {q \in params : q.tank_no = m.tank_no}
      prow == IF P = {} THEN NoParams ELSE CHOOSE q \in P : TRUE
      order == SortByDate(table, LatestTx(table, m.device_id))
  IN [k \in DOMAIN order |->
        LET t == table[order[k]]
        IN [device_id |-> m.device_id, tank_no |-> m.tank_no, location |-> t.location,
            last_updated |-> t.date_time,
            readings |-> [ultra_height |-> t.ultra_height, ul_status |-> t.ul_status],
            params |-> [height_m |-> prow.height, tank_volume_l |-> prow.tank_volume,
                        upper_safe_limit_pct |-> prow.upper_safe_limit_pct,
                        lower_safe_limit_pct |-> prow.lower_safe_limit_pct],
            metrics |-> computeMetrics(prow, t)]]

RECURSIVE allCards(_, _, _)
allCards(i, params, table) ==
  IF i > Len(Master_Tables) THEN <<>>
  ELSE cardsOf(Master_Tables[i], params, table) \o allCards(i + 1, params, table)

\* GET /api/cards; r.date_time.toISOString() throws on the zero date
GetTankCards ==
  /\ resp' = IF \E i \in DOMAIN Transaction_Table :
                  /\ Transaction_Table[i].date_time.k = "invalid"
                  /\ i \in LatestTx(Transaction_Table, Transaction_Table[i].device_id)
               THEN [endpoint |-> "cards", status |-> 500, error |-> "DB_READ_FAILED"]
               ELSE [endpoint |-> "cards", status |-> 200,
                     data |-> allCards(1, Tank_Parameters, Transaction_Table)]
  /\ UNCHANGED <<Tank_Parameters, Transaction_Table, tank_status, inflight, now>>
  /\ UNCHANGED tankUpdateVars

(***************************************************************************)
(* The clock.                                                               *)
(***************************************************************************)
\* the instants the clock of the model passes through (ms): 0, 30 minutes and
\* one millisecond later
Times == {0, STALE_MINUTES * MS_PER_MINUTE, STALE_MINUTES * MS_PER_MINUTE + 1}

\* time passes; resp is the response of the request served at this instant
Tick(t) ==
  /\ t \in Times
  /\ t > now
  /\ now' = t
  /\ resp' = NoResponse
  /\ UNCHANGED <<Tank_Parameters, Transaction_Table, tank_status, inflight>>
  /\ UNCHANGED tankUpdateVars

(***************************************************************************)
(* Inputs.                                                                  *)
(***************************************************************************)
\* diameter_breadth and length of a Tank_Parameters row (dm)
Diameters == {JNull, Num(0), Num(20)}

Lengths == {JNull, Num(0), Num(50)}

\* tank_volume (L): the full cylinder of diameter 20 and length 50
Capacities == {JNull, Num(0), Num(horizontalCylinderVolume(20, 50, 20) \div 10)}

\* safe limits (dL): none, 0, the half-full and the full cylinder
UpperLimits == {JNull, Num(0), Num(horizontalCylinderVolume(20, 50, 10)),
                Num(horizontalCylinderVolume(20, 50, 20))}

LowerLimits == {JNull, Num(0), Num(horizontalCylinderVolume(20, 50, 10))}

\* ultra_height of a stored reading (dm)
Sensors == {JNull, Num(-5), Num(0), Num(10), Num(20), Num(MAX_HEIGHT_M), Num(200)}

ParamSpace ==
  [diameter_breadth : Diameters, length : Lengths, height : {JNull}, tank_volume : Capacities,
   upper_safe_limit_pct : UpperLimits, lower_safe_limit_pct : LowerLimits]

\* the instant of the queries of SpecEngine: 45 minutes
EngineNow == 45 * MS_PER_MINUTE

\* date_time of the stored reading: 45 minutes, 30 minutes and 1 ms, 30
\* minutes and nothing before EngineNow, one minute after it (the clock of the
\* sender is ahead), and the zero date
EngineDates ==
  {DateAt(EngineNow - a) : a \in {45 * MS_PER_MINUTE, STALE_MINUTES * MS_PER_MINUTE + 1,
                                   STALE_MINUTES * MS_PER_MINUTE, 0, -MS_PER_MINUTE}}
  \cup {InvalidDate}

TypeOK ==
  /\ now \in Nat
  /\ Len(tank_status) <= MaxStatusRows
  /\ Len(Transaction_Table) <= MaxTx
  /\ \A i \in DOMAIN tank_status : tank_status[i].id = i

(***************************************************************************)
(* SpecEngine: the engine on every stored configuration and reading.        *)
(***************************************************************************)
InitEngine ==
  /\ NoTankUpdate
  /\ \E p \in ParamSpace : Tank_Parameters = {[tank_no |-> t] @@ p : t \in TankNos}
  /\ \/ Transaction_Table = <<>>
     \/ \E i \in DOMAIN Master_Tables, s \in Sensors, d \in EngineDates :
          Transaction_Table =
            <<[device_id |-> Master_Tables[i].device_id, tank_no |-> Master_Tables[i].tank_no,
               location |-> Master_Tables[i].location, ultra_height |-> s, date_time |-> d,
               ul_status |-> JNull]>>
  /\ tank_status = <<>>
  /\ inflight = <<>>
  /\ now = EngineNow
  /\ resp = NoResponse

\* POST /api/update-data with the fields of a stored reading
ReplayUpdateData(i) ==
  /\ i \in DOMAIN Transaction_Table
  /\ tank_status = <<>>
  /\ UpdateData([device_id |-> Transaction_Table[i].device_id,
                 tank_no |-> Transaction_Table[i].tank_no,
                 location |-> Transaction_Table[i].location,
                 ultra_height |-> Transaction_Table[i].ultra_height,
                 date_time |-> Transaction_Table[i].date_time])
  /\ UNCHANGED <<Tank_Parameters, Transaction_Table, inflight, now>>
  /\ UNCHANGED tankUpdateVars

NextEngine ==
  \/ \E d \in DeviceIds : GetTankCurrent(d)
  \/ \E i \in 1..MaxTx : ReplayUpdateData(i)
  \/ \E t \in TankNos : GetTankHistory(t)

SpecEngine == InitEngine /\ [][NextEngine]_vars

(***************************************************************************)
(* SpecMetrics: the two classifiers on every configuration of limits.       *)
(***************************************************************************)
\* height (dm) of a Tank_Parameters row
Heights == {JNull, Num(0), Num(20)}

\* safe limits read as litres by tank-current (dL) and as percentages by
\* computeMetrics (tenths of a percent): none, 0, 50, 100 and the half-full
\* cylinder
MetricLimits == {JNull, Num(0), Num(500), Num(1000), Num(horizontalCylinderVolume(20, 50, 10))}

\* ul_status of a reading: none, empty, and two tags of the sender
Tags == {JNull, Str(""), Str("High"), Str("Fault")}

InitMetrics ==
  /\ NoTankUpdate
  /\ \E h \in Heights, up \in MetricLimits, lo \in MetricLimits :
       Tank_Parameters =
         {[tank_no |-> t, diameter_breadth |-> Num(20), length |-> Num(50), height |-> h,
           tank_volume |-> Num(horizontalCylinderVolume(20, 50, 20) \div 10),
           upper_safe_limit_pct |-> up, lower_safe_limit_pct |-> lo] : t \in TankNos}
  /\ \E s \in {JNull, Num(-5), Num(0), Num(10), Num(20), Num(25)}, g \in Tags :
       Transaction_Table =
         <<[device_id |-> "D1", tank_no |-> "T1", location |-> "Plant", ultra_height |-> s,
            date_time |-> DateAt(0), ul_status |-> g]>>
  /\ tank_status = <<>>
  /\ inflight = <<>>
  /\ now = 0
  /\ resp = NoResponse

NextMetrics ==
  \/ \E d \in DeviceIds : GetTankCurrent(d)
  \/ GetTankCards

SpecMetrics == InitMetrics /\ [][NextMetrics]_vars

(***************************************************************************)
(* SpecVolume: volumes and fill percentages against the configured          *)
(* capacity, for both shapes.                                               *)
(***************************************************************************)
\* tank_volume (L): none, 0, the full cylinder and the full FIRE-TANK (820446.5
\* L, stored as the next whole litre)
VolumeCapacities == Capacities \cup {Num(820447)}

\* date_time of the reading of SpecVolume: fresh, and 45 minutes old
VolumeDates == {DateAt(EngineNow), DateAt(0)}

InitVolume ==
  /\ NoTankUpdate
  /\ \E d \in Diameters, l \in Lengths, c \in VolumeCapacities :
       Tank_Parameters =
         {[tank_no |-> t, diameter_breadth |-> d, length |-> l, height |-> JNull,
           tank_volume |-> c, upper_safe_limit_pct |-> JNull,
           lower_safe_limit_pct |-> JNull] : t \in TankNos}
  /\ \E i \in DOMAIN Master_Tables, s \in Sensors, d \in VolumeDates :
       Transaction_Table =
         <<[device_id |-> Master_Tables[i].device_id, tank_no |-> Master_Tables[i].tank_no,
            location |-> Master_Tables[i].location, ultra_height |-> s, date_time |-> d,
            ul_status |-> JNull]>>
  /\ tank_status = <<>>
  /\ inflight = <<>>
  /\ now = EngineNow
  /\ resp = NoResponse

NextVolume ==
  \/ \E d \in DeviceIds : GetTankCurrent(d)
  \/ \E i \in 1..MaxTx : ReplayUpdateData(i)

SpecVolume == InitVolume /\ [][NextVolume]_vars

(***************************************************************************)
(* SpecFleet: the fleet-wide queries on tanks with or without a             *)
(* Tank_Parameters row and with or without a reading.                       *)
(***************************************************************************)
\* the Tank_Parameters rows a tank may have: the 2 m x 5 m geometry with or
\* without a capacity and a height
FleetParamRows(t) ==
  {[tank_no |-> t, diameter_breadth |-> Num(20), length |-> Num(50), height |-> h,
    tank_volume |-> c, upper_safe_limit_pct |-> JNull, lower_safe_limit_pct |-> JNull] :
     h \in {JNull, Num(20)},
     c \in {JNull, Num(horizontalCylinderVolume(20, 50, 20) \div 10)}}

\* the readings a device may have sent: half-way distance or none, now or 45
\* minutes ago
FleetReadings(m) ==
  {[device_id |-> m.device_id, tank_no |-> m.tank_no, location |-> m.location,
    ultra_height |-> s, date_time |-> d, ul_status |-> JNull] :
     s \in {JNull, Num(10)}, d \in VolumeDates}

InitFleet ==
  /\ NoTankUpdate
  /\ \E P1 \in {{}} \cup {{r} : r \in FleetParamRows(Master_Tables[1].tank_no)},
        P2 \in {{}} \cup {{r} : r \in FleetParamRows(Master_Tables[2].tank_no)} :
       Tank_Parameters = P1 \cup P2
  /\ \E T1 \in {<<>>} \cup {<<r>> : r \in FleetReadings(Master_Tables[1])},
        T2 \in {<<>>} \cup {<<r>> : r \in FleetReadings(Master_Tables[2])} :
       Transaction_Table = T1 \o T2
  /\ tank_status = <<>>
  /\ inflight = <<>>
  /\ now = EngineNow
  /\ resp = NoResponse

NextFleet ==
  \/ GetTankCurrentAll
  \/ GetTankCards
  \/ \E d \in DeviceIds : GetTankCurrent(d)

SpecFleet == InitFleet /\ [][NextFleet]_vars

(***************************************************************************)
(* SpecWrite: the write path of one tank, from POST /api/transactions to    *)
(* the tank_status row that the status endpoints serve.                     *)
(***************************************************************************)
\* readings of the cylinder: two distances, two timestamps (1 and 2 minutes)
WriteBodies ==
  {[device_id |-> "D1", tank_no |-> "T1", location |-> "Plant", ultra_height |-> u,
    date_time |-> d] :
     u \in {Num(5), Num(15)}, d \in {DateAt(MS_PER_MINUTE), DateAt(2 * MS_PER_MINUTE)}}

InitWrite ==
  /\ NoTankUpdate
  /\ Tank_Parameters =
       {[tank_no |-> "T1", diameter_breadth |-> Num(20), length |-> Num(50),
         height |-> JNull, tank_volume |-> Num(horizontalCylinderVolume(20, 50, 20) \div 10),
         upper_safe_limit_pct |-> JNull, lower_safe_limit_pct |-> JNull]}
  /\ Transaction_Table = <<>>
  /\ tank_status = <<>>
  /\ inflight = <<>>
  /\ now = 2 * MS_PER_MINUTE
  /\ resp = NoResponse

\* POST /api/transactions, while the rows the model keeps have room for the
\* tank_status row of the call it triggers
AcceptReading(body) ==
  /\ Len(tank_status) + Len(inflight) < MaxStatusRows
  /\ PostTransaction(body, TRUE)

NextWrite ==
  \/ \E body \in WriteBodies : AcceptReading(body)
  \/ \E i \in 1..MaxInflight : DeliverUpdateData(i)
  \/ \E i \in 1..MaxInflight : FailUpdateData(i)
  \/ \E d \in DeviceIds : GetTankStatus(d)
  \/ \E d \in DeviceIds : GetTankCurrent(d)
  \/ GetTankCurrentAll

SpecWrite == InitWrite /\ [][NextWrite]_vars

(***************************************************************************)
(* SpecLinear: the linear level model of computeMetrics on heights,         *)
(* capacities and distances of every kind.                                  *)
(***************************************************************************)
\* height (dm): none, 0, 2 m and 3 m
LinearHeights == {JNull, Num(0), Num(20), Num(30)}

\* tank_volume (L): none, 0, 1, odd and even capacities
LinearCapacities == {JNull, Num(0), Num(1), Num(1001), Num(15708)}

\* ultra_height (dm): none, above the tank (negative), every distance within
\* the 3 m tank, and below its bottom
LinearSensors == {JNull} \cup {Num(n) : n \in (0 - 3)..33}

InitLinear ==
  /\ NoTankUpdate
  /\ \E h \in LinearHeights, c \in LinearCapacities :
       Tank_Parameters =
         {[tank_no |-> "T1", diameter_breadth |-> JNull, length |-> JNull, height |-> h,
           tank_volume |-> c, upper_safe_limit_pct |-> JNull,
           lower_safe_limit_pct |-> JNull]}
  /\ \E s \in LinearSensors :
       Transaction_Table =
         <<[device_id |-> "D1", tank_no |-> "T1", location |-> "Plant", ultra_height |-> s,
            date_time |-> DateAt(0), ul_status |-> JNull]>>
  /\ tank_status = <<>>
  /\ inflight = <<>>
  /\ now = 0
  /\ resp = NoResponse

NextLinear == GetTankCards

SpecLinear == InitLinear /\ [][NextLinear]_vars

(***************************************************************************)
(* SpecGeometry: the copies of the cylinder function as pure functions, on  *)
(* arguments no stored row needs to hold.                                   *)
(***************************************************************************)
\* horizontalCylinderVolume of tankCurrent.js on JS numbers: with a NaN
\* argument h <= 0 still returns 0, the comparison h >= D is false for a NaN
\* D, and every product with NaN is NaN
cylinderVolumeOfValues(D, L, h) ==
  IF h <= 0 THEN Num(0)
  ELSE IF ~IsFinite(D) \/ ~IsFinite(L) THEN JNaN
  ELSE Num(horizontalCylinderVolume(D.v, L.v, h))

\* the exported copy (utils/geometry.js): the same statements as tankCurrent.js
geometryCylinderVolume(D, L, h) == cylinderVolumeOfValues(D, L, h)

\* D and L of a call (dm): not a number, negative, zero, and the 2 m x 5 m tank
GeometryDiameters == {JNaN, Num(-20), Num(0), Num(20)}
GeometryLengths == {JNaN, Num(-50), Num(0), Num(50)}

\* h of a call (dm): below empty, every depth of the 2 m tank, above full
GeometryDepths == (0 - 2)..22

\* a call frame: the arguments of two calls that differ in h only
InitGeometry ==
  /\ NoTankUpdate
  /\ Tank_Parameters = {}
  /\ Transaction_Table = <<>>
  /\ tank_status = <<>>
  /\ inflight = <<>>
  /\ now = 0
  /\ \E D \in GeometryDiameters, L \in GeometryLengths, h1 \in GeometryDepths,
        h2 \in GeometryDepths :
       /\ h1 <= h2
       /\ resp = [endpoint |-> "geometry", status |-> 0, D |-> D, L |-> L,
                  h1 |-> h1, h2 |-> h2]

\* the three copies applied to the arguments of the frame; none of them has
\* a throw statement, so each call returns a value
ApplyCylinder ==
  /\ resp.endpoint = "geometry"
  /\ resp.status = 0
  /\ resp' = [endpoint |-> "geometry", status |-> 200, D |-> resp.D, L |-> resp.L,
              h1 |-> resp.h1, h2 |-> resp.h2,
              current1 |-> cylinderVolumeOfValues(resp.D, resp.L, resp.h1),
              current2 |-> cylinderVolumeOfValues(resp.D, resp.L, resp.h2),
              geometry1 |-> geometryCylinderVolume(resp.D, resp.L, resp.h1),
              geometry2 |-> geometryCylinderVolume(resp.D, resp.L, resp.h2),
              litres1 |-> Num(horizontalCylinderVolumeLitres(resp.D, resp.L, resp.h1)),
              litres2 |-> Num(horizontalCylinderVolumeLitres(resp.D, resp.L, resp.h2))]
  /\ UNCHANGED <<Tank_Parameters, Transaction_Table, tank_status, inflight, now>>
  /\ UNCHANGED tankUpdateVars

NextGeometry == ApplyCylinder

SpecGeometry == InitGeometry /\ [][NextGeometry]_vars

(***************************************************************************)
(* Spec: the service, from an empty database.                               *)
(***************************************************************************)
\* the Tank_Parameters tables of Spec: both tanks configured (the cylinder
\* with its limits at empty and full), or the cylinder alone, without limits
SystemParams ==
  {{[tank_no |-> "T1", diameter_breadth |-> Num(20), length |-> Num(50),
     height |-> JNull, tank_volume |-> Num(horizontalCylinderVolume(20, 50, 20) \div 10),
     upper_safe_limit_pct |-> Num(horizontalCylinderVolume(20, 50, 20)),
     lower_safe_limit_pct |-> Num(0)],
    [tank_no |-> "FIRE-TANK", diameter_breadth |-> JNull, length |-> JNull,
     height |-> JNull, tank_volume |-> Num(820447), upper_safe_limit_pct |-> JNull,
     lower_safe_limit_pct |-> JNull]},
   {[tank_no |-> "T1", diameter_breadth |-> Num(20), length |-> Num(50),
     height |-> JNull, tank_volume |-> JNull, upper_safe_limit_pct |-> JNull,
     lower_safe_limit_pct |-> JNull]}}

\* request bodies of POST /api/transactions: readings of the cylinder with
\* ultra_height missing, null or a distance, one with a date_time MySQL cannot
\* parse, a reading of the FIRE-TANK, a reading of a device that is not
\* configured and a reading without tank_no
TransactionBodies ==
  {[device_id |-> Master_Tables[i].device_id, tank_no |-> Master_Tables[i].tank_no,
    location |-> Master_Tables[i].location, ultra_height |-> u, date_time |-> d] :
     i \in {1}, u \in {JUndef, JNull, Num(10)}, d \in {JUndef}}
  \cup {[device_id |-> "D1", tank_no |-> "T1", location |-> "Plant",
         ultra_height |-> Num(20), date_time |-> InvalidDate],
        [device_id |-> "D2", tank_no |-> "FIRE-TANK", location |-> "Yard",
         ultra_height |-> Num(0), date_time |-> JUndef],
        [device_id |-> "D9", tank_no |-> "T9", location |-> "Gate",
         ultra_height |-> Num(10), date_time |-> JUndef],
        [device_id |-> "D1", tank_no |-> "", location |-> "Plant",
         ultra_height |-> Num(10), date_time |-> JUndef]}

\* request bodies of a POST /api/update-data made by hand
UpdateDataBodies ==
  {[device_id |-> "D1", tank_no |-> "T1", location |-> "", ultra_height |-> Num(20),
    date_time |-> JUndef],
   [device_id |-> "D1", tank_no |-> "", location |-> "", ultra_height |-> Num(0),
    date_time |-> JUndef]}

Init ==
  /\ NoTankUpdate
  /\ Tank_Parameters \in SystemParams
  /\ Transaction_Table = <<>>
  /\ tank_status = <<>>
  /\ inflight = <<>>
  /\ now = 0
  /\ resp = NoResponse

Next ==
  \/ \E body \in TransactionBodies, strict \in BOOLEAN : PostTransaction(body, strict)
  \/ \E i \in 1..MaxTx : DeliverUpdateData(i)
  \/ \E body \in UpdateDataBodies : PostUpdateData(body)
  \/ \E t \in Times : Tick(t)
  \/ \E d \in DeviceIds \cup {"D9"} : GetTankCurrent(d)
  \/ \E d \in DeviceIds \cup {"D9"} : GetDeviceLatest(d)
  \/ \E d \in DeviceIds \cup {"D9"} : GetTankStatus(d)

Spec == Init /\ [][Next]_vars

(***************************************************************************)
(* Properties.                                                              *)
(***************************************************************************)
Abs(a) == IF a < 0 THEN -a ELSE a

\* the response on the wire is a row of GET /api/tank-current
CurrentOK == resp.endpoint = "tank-current" /\ resp.status = 200

\* the latest stored readings of a device (the rows the join selects)
ReadingsOf(deviceId) ==
  {Transaction_Table[i] : i \in LatestTx(Transaction_Table, deviceId)}

\* the Tank_Parameters rows of the tank of a device
ParamsOfDevice(deviceId) ==
  {p \in Tank_Parameters :
     \E i \in DOMAIN Master_Tables :
       Master_Tables[i].device_id = deviceId /\ Master_Tables[i].tank_no = p.tank_no}

\* C1: a tank-current row built from a reading older than 30 minutes has
\* stale = true, effective volume 0, status Inactive and the alert
\* "No reading in last 30 minutes", whatever the reading and the limits are.
C1_StalenessOverride ==
  resp.endpoint = "tank-current" =>
    \A r \in ReadingsOf(resp.device_id) :
      (r.date_time.k = "date" /\ now - r.date_time.v > 30 * 60000) =>
        /\ resp.status = 200
        /\ resp.data.stale = TRUE
        /\ resp.data.effective.volume_l = Num(0)
        /\ resp.data.tank_status = "Inactive"
        /\ resp.data.tank_alert_message = "No reading in last 30 minutes"

\* a stale reading whose raw volume is at or above the upper limit: the
\* classifier alone would say "High level"
C1_Witness ==
  /\ CurrentOK
  /\ resp.data.stale
  /\ resp.data.minutes_since_last = Num(450)
  /\ resp.data.raw_reading.volume_l.k = "num"
  /\ resp.data.raw_reading.volume_l.v > 0
  /\ resp.data.limits_l.max_l.k = "num"
  /\ resp.data.raw_reading.volume_l.v >= resp.data.limits_l.max_l.v
  /\ resp.data.tank_status = "Inactive"

\* the guard's output: stale, volume 0, Inactive, the 30-minute alert
Overridden(d) ==
  /\ d.stale = TRUE
  /\ d.effective.volume_l = Num(0)
  /\ d.tank_status = "Inactive"
  /\ d.tank_alert_message = "No reading in last 30 minutes"

\* C3: with no timestamp the guard overrides and minutes_since_last is null;
\* with a timestamp present the row is returned and minutes_since_last is a
\* number.
C3_Original ==
  (resp.endpoint = "tank-current" /\ resp.device_id \in DeviceIds) =>
    /\ ReadingsOf(resp.device_id) = {} =>
         resp.status = 200 /\ Overridden(resp.data) /\ resp.data.minutes_since_last = JNull
    /\ \A r \in ReadingsOf(resp.device_id) :
         ~IsNullish(r.date_time) => resp.status = 200 /\ resp.data.minutes_since_last.k = "num"

\* fill is the share (tenths of a percent, to the nearest) of a volume (dL) in
\* a capacity (L), and null when the capacity is absent or not positive or
\* there is no volume
IsPctOf(fill, volume, capacity) ==
  IF capacity.k = "num" /\ capacity.v > 0 /\ volume.k = "num"
    THEN fill.k = "num" /\ 2 * Abs(volume.v * 100 - fill.v * capacity.v) <= capacity.v
    ELSE fill = JNull

\* C4: a tank-current row built from a reading at most 30 minutes old (exactly
\* 30 minutes included) has stale = false, and its effective volume and fill
\* percentage are the raw volume and the raw volume's share of the capacity.
C4_FreshPassThrough ==
  resp.endpoint = "tank-current" =>
    \A r \in ReadingsOf(resp.device_id) :
      (r.date_time.k = "date" /\ now - r.date_time.v <= 30 * 60000) =>
        /\ resp.status = 200
        /\ resp.data.stale = FALSE
        /\ resp.data.effective.volume_l = resp.data.raw_reading.volume_l
        /\ IsPctOf(resp.data.effective.fill_percentage, resp.data.raw_reading.volume_l,
                   resp.data.geometry.capacity_l)

\* a reading exactly 30 minutes old with a positive raw volume
C4_Witness ==
  /\ CurrentOK
  /\ \E r \in ReadingsOf(resp.device_id) : r.date_time = DateAt(now - 30 * 60000)
  /\ resp.data.stale = FALSE
  /\ resp.data.effective.volume_l.k = "num"
  /\ resp.data.effective.volume_l.v > 0
  /\ resp.data.effective.fill_percentage = Num(500)

\* C5 as stated: every stale reading is reported with fill_pct 0.
C5_Original ==
  resp.endpoint = "tank-current" =>
    \A r \in ReadingsOf(resp.device_id) :
      (r.date_time.k = "date" /\ now - r.date_time.v > 30 * 60000) =>
        resp.status = 200 /\ Overridden(resp.data)
        /\ resp.data.effective.fill_percentage = Num(0)

\* C5 amended: every stale reading is reported Inactive, with volume 0 and
\* stale = true; its fill_pct is 0 when the capacity is known and positive,
\* and null when the capacity is absent or not positive.
C5_StaleFillPct ==
  resp.endpoint = "tank-current" =>
    \A r \in ReadingsOf(resp.device_id) :
      (r.date_time.k = "date" /\ now - r.date_time.v > 30 * 60000) =>
        /\ resp.status = 200 /\ Overridden(resp.data)
        /\ \A p \in ParamsOfDevice(resp.device_id) :
             resp.data.effective.fill_percentage =
               IF p.tank_volume.k = "num" /\ p.tank_volume.v > 0 THEN Num(0) ELSE JNull

\* Scenario D: a reading 45 minutes old whose raw volume is half the capacity
C5_Witness ==
  /\ CurrentOK
  /\ resp.data.minutes_since_last = Num(450)
  /\ resp.data.raw_reading.volume_l.k = "num"
  /\ IsPctOf(Num(500), resp.data.raw_reading.volume_l, resp.data.geometry.capacity_l)
  /\ resp.data.effective.fill_percentage = Num(0)
  /\ resp.data.stale

\* statusFromLimits on a fresh reading with a computed level and both limits
\* configured: Warning / "High level" iff level >= upper limit, Warning /
\* "Low level" iff level < upper limit and level <= lower limit, OK / "Normal"
\* otherwise
CurrentClassified ==
  (CurrentOK /\ ~resp.data.stale /\ resp.data.raw_reading.volume_l.k = "num"
     /\ resp.data.limits_l.max_l.k = "num" /\ resp.data.limits_l.min_l.k = "num") =>
    LET level == resp.data.raw_reading.volume_l.v
        upper == resp.data.limits_l.max_l.v
        lower == resp.data.limits_l.min_l.v
        tag == <<resp.data.tank_status, resp.data.tank_alert_message>>
    IN /\ tag \in {<<"Warning", "High level">>, <<"Warning", "Low level">>, <<"OK", "Normal">>}
       /\ tag = <<"Warning", "High level">> <=> level >= upper
       /\ tag = <<"Warning", "Low level">> <=> (level < upper /\ level <= lower)
       /\ tag = <<"OK", "Normal">> <=> (level < upper /\ level > lower)

\* the cards of GET /api/cards with a computed level and both limits configured
ClassifiedCards ==
  IF resp.endpoint = "cards" /\ resp.status = 200
    THEN {resp.data[k] : k \in {j \in DOMAIN resp.data :
                                  /\ resp.data[j].metrics.level_pct.k = "num"
                                  /\ resp.data[j].params.upper_safe_limit_pct.k = "num"
                                  /\ resp.data[j].params.lower_safe_limit_pct.k = "num"}}
    ELSE {}

UpdateOK == resp.endpoint = "update-data" /\ resp.status = 200

\* the latest readings of the device are older than 30 minutes
LatestIsOld(deviceId) ==
  /\ ReadingsOf(deviceId) # {}
  /\ \A r \in ReadingsOf(deviceId) :
       r.date_time.k = "date" /\ now - r.date_time.v > STALE_MINUTES * MS_PER_MINUTE

\* C2: whenever the latest reading of a tank is older than 30 minutes,
\* tank-current, tank-status and device-latest all report the tank as
\* Inactive with volume 0, never with the level computed from the old reading.
C2_NeverLive ==
  (resp.status = 200 /\ resp.endpoint \in {"tank-current", "device-latest", "tank-status"}
     /\ LatestIsOld(resp.device_id)) =>
    CASE resp.endpoint = "tank-current" ->
           resp.data.tank_status = "Inactive" /\ resp.data.effective.volume_l = Num(0)
      [] resp.endpoint = "device-latest" ->
           resp.data.tank_status = "Inactive" /\ resp.data.currentLevel \in {Num(0), JNull}
      [] resp.endpoint = "tank-status" ->
           \A k \in DOMAIN resp.data :
             resp.data[k].tank_status = "Inactive"
             /\ resp.data[k].currentLevel \in {Num(0), JNull}

\* C6: at both call sites a level equal to a configured upper limit (0
\* included) is Warning / "High level", and a level equal to a configured
\* lower limit and below the upper limit is Warning / "Low level".
C6_BoundaryInclusive ==
  /\ (CurrentOK /\ ~resp.data.stale /\ resp.data.raw_reading.volume_l.k = "num") =>
       LET level == resp.data.raw_reading.volume_l.v
           upper == resp.data.limits_l.max_l
           lower == resp.data.limits_l.min_l
       IN /\ (upper.k = "num" /\ level = upper.v) =>
               resp.data.tank_alert_message = "High level"
          /\ (lower.k = "num" /\ level = lower.v /\ (upper.k = "num" => level < upper.v)) =>
               resp.data.tank_alert_message = "Low level"
  /\ (UpdateOK /\ resp.locals.branch # "none") =>
       \A p \in {q \in Tank_Parameters : q.tank_no = resp.tank_no} :
         LET level == resp.stored.currentLevel
             upper == p.upper_safe_limit_pct
             lower == p.lower_safe_limit_pct
         IN /\ (upper.k = "num" /\ level = upper.v) =>
                 resp.stored.tank_alert_message = "High level"
            /\ (lower.k = "num" /\ level = lower.v /\ (upper.k = "num" => level < upper.v)) =>
                 resp.stored.tank_alert_message = "Low level"

\* C8: an update-data request whose ultra_height is null or missing stores
\* "No Data" / "No valid level" with no depth and no level derived from it.
C8_MissingDistance ==
  (UpdateOK /\ IsNullish(resp.locals.ultra_height)) =>
    /\ resp.locals.depth = JNull
    /\ resp.stored.tank_status = "No Data"
    /\ resp.stored.tank_alert_message = "No valid level"
    /\ resp.stored.currentLevel = 0
    /\ resp.stored.fillPercentage = 0

\* clamp(D - d, 0, D)
ClampDepth(D, d) == Min(Max(D - d, 0), D)

\* the depth reported by tank-current and by the history endpoint for a
\* cylinder of diameter D > 0 and a present distance is clamp(D - d, 0, D)
DepthClampedAtReads ==
  /\ (CurrentOK /\ resp.data.tank_no # "FIRE-TANK" /\ resp.data.geometry.diameter_m > 0
        /\ resp.data.raw_reading.ultra_height_m.k = "num") =>
       resp.data.raw_reading.water_depth_m =
         Num(ClampDepth(resp.data.geometry.diameter_m, resp.data.raw_reading.ultra_height_m.v))
  /\ resp.endpoint = "history" =>
       \A k \in DOMAIN resp.history :
         LET h == resp.history[k]
         IN (h.diameter_m > 0 /\ h.ultra_height_m.k = "num") =>
              h.water_depth_m = Num(ClampDepth(h.diameter_m, h.ultra_height_m.v))

\* update-data took the cylinder branch with a diameter D > 0 and a distance
\* that the request carries
UpdateCylinder ==
  /\ UpdateOK /\ resp.locals.branch = "cylinder"
  /\ resp.locals.ultra_height.k = "num"
  /\ resp.locals.D.k = "num" /\ resp.locals.D.v > 0

C10_Rectangular ==
  /\ (CurrentOK /\ resp.data.tank_no = "FIRE-TANK"
        /\ resp.data.raw_reading.ultra_height_m.k = "num") =>
       LET d == resp.data.raw_reading.ultra_height_m.v
           depth == resp.data.raw_reading.water_depth_m
           volume == resp.data.raw_reading.volume_l
       IN /\ depth = Num(ClampDepth(179, d))
          /\ volume = Num(89 * 515 * depth.v)
          /\ d <= 0 => (depth = Num(179) /\ volume = Num(8204465))
          /\ d >= 179 => (depth = Num(0) /\ volume = Num(0))
  /\ (UpdateOK /\ resp.tank_no = "FIRE-TANK" /\ resp.locals.ultra_height.k = "num") =>
       LET d == resp.locals.ultra_height.v
           depth == resp.locals.depth
           volume == resp.stored.currentLevel
       IN /\ resp.locals.branch = "rectangular"
          /\ depth = Num(ClampDepth(179, d))
          /\ volume = 89 * 515 * depth.v
          /\ d <= 0 => (depth = Num(179) /\ volume = 8204465)
          /\ d >= 179 => (depth = Num(0) /\ volume = 0)

\* Scenario B at tank-current: distance 0, depth 17.9 m, 820446.5 L
C10_Witness ==
  /\ CurrentOK /\ resp.data.tank_no = "FIRE-TANK"
  /\ resp.data.raw_reading.ultra_height_m = Num(0)
  /\ resp.data.raw_reading.water_depth_m = Num(179)
  /\ resp.data.raw_reading.volume_l = Num(8204465)

\* the volume (dL) of the whole tank: the FIRE-TANK box, or the cylinder of
\* diameter D and length L (dm)
FullVolumeOf(tankNo, D, L) ==
  IF tankNo = "FIRE-TANK" THEN 89 * 515 * 179
  ELSE IF D > 0 /\ L > 0 THEN RoundDiv(31416 * D * D * L, 4000)
  ELSE 0

\* the volumes of a tank-current row are within [0, cap] (cap in dL)
CurrentWithin(d, cap) ==
  /\ d.raw_reading.volume_l.k = "num" =>
       d.raw_reading.volume_l.v >= 0 /\ d.raw_reading.volume_l.v <= cap
  /\ d.effective.volume_l.k = "num" =>
       d.effective.volume_l.v >= 0 /\ d.effective.volume_l.v <= cap
  /\ d.effective.fill_percentage.k = "num" =>
       d.effective.fill_percentage.v >= 0 /\ d.effective.fill_percentage.v <= 1000

\* the level stored by update-data is within [0, cap] (cap in dL)
StoredWithin(st, cap) ==
  /\ st.currentLevel >= 0 /\ st.currentLevel <= cap
  /\ st.fillPercentage >= 0 /\ st.fillPercentage <= 1000

\* C11 as stated: whenever the capacity is known, every reported volume is
\* within [0, capacity] and the fill percentage within [0, 100].
C11_Original ==
  /\ (CurrentOK /\ resp.data.geometry.capacity_l.k = "num") =>
       CurrentWithin(resp.data, 10 * resp.data.geometry.capacity_l.v)
  /\ UpdateOK =>
       \A p \in {q \in Tank_Parameters : q.tank_no = resp.tank_no} :
         p.tank_volume.k = "num" => StoredWithin(resp.stored, 10 * p.tank_volume.v)

\* C11 amended: every reported volume is >= 0; it is <= capacity, and the fill
\* percentage within [0, 100], when the configured capacity is at least the
\* volume of the whole tank. The code does not clamp: with a smaller capacity
\* (0 included) the volume exceeds it and the fill percentage exceeds 100.
C11_VolumeBound ==
  /\ (CurrentOK /\ resp.data.geometry.capacity_l.k = "num") =>
       LET d == resp.data
           cap == 10 * d.geometry.capacity_l.v
       IN /\ d.raw_reading.volume_l.k = "num" => d.raw_reading.volume_l.v >= 0
          /\ d.effective.volume_l.k = "num" => d.effective.volume_l.v >= 0
          /\ d.effective.fill_percentage.k = "num" => d.effective.fill_percentage.v >= 0
          /\ FullVolumeOf(d.tank_no, d.geometry.diameter_m, d.geometry.length_m) <= cap =>
               CurrentWithin(d, cap)
  /\ UpdateOK =>
       \A p \in {q \in Tank_Parameters : q.tank_no = resp.tank_no} :
         p.tank_volume.k = "num" =>
           /\ resp.stored.currentLevel >= 0
           /\ resp.stored.fillPercentage >= 0
           /\ FullVolumeOf(resp.tank_no, NumberOrZero(p.diameter_breadth),
                           NumberOrZero(p.length)) <= 10 * p.tank_volume.v =>
                StoredWithin(resp.stored, 10 * p.tank_volume.v)

\* the FIRE-TANK full to the top with its capacity configured: 100 %
C11_Witness ==
  /\ CurrentOK /\ resp.data.tank_no = "FIRE-TANK"
  /\ resp.data.geometry.capacity_l = Num(820447)
  /\ resp.data.raw_reading.ultra_height_m = Num(-5)
  /\ resp.data.effective.volume_l = Num(8204465)
  /\ resp.data.effective.fill_percentage = Num(1000)



\* C15 as stated: the fill percentage is volume / capacity * 100 when the
\* capacity is positive and a volume was computed, and null, never 0,
\* otherwise; in the fresh tank-current row and in the row update-data stores.
C15_FillPctNullWithoutCapacity ==
  /\ (CurrentOK /\ resp.data.stale = FALSE) =>
       IsPctOf(resp.data.effective.fill_percentage, resp.data.raw_reading.volume_l,
               resp.data.geometry.capacity_l)
  /\ UpdateOK =>
       \A p \in {q \in Tank_Parameters : q.tank_no = resp.tank_no} :
         IF NumberOrZero(p.tank_volume) > 0 /\ resp.locals.branch # "none"
           THEN IsPctOf(Num(resp.stored.fillPercentage), Num(resp.stored.currentLevel),
                        Num(NumberOrZero(p.tank_volume)))
           ELSE resp.stored.fillPercentage # 0


(***************************************************************************)
(* The classifier and the tag of the sender (SpecMetrics).                  *)
(***************************************************************************)
\* the cards of GET /api/cards with a computed level
LevelCards ==
  IF resp.endpoint = "cards" /\ resp.status = 200
    THEN {resp.data[k] : k \in {j \in DOMAIN resp.data :
                                  resp.data[j].metrics.level_pct.k = "num"}}
    ELSE {}

\* C16 as stated: with neither limit configured and a computable level the
\* classifier returns the tag of the sender if there is one and OK / "Normal"
\* otherwise, never a null or empty tag. statusFromLimits is given no tag of
\* the sender.
C16_DefaultsToNormal ==
  /\ (CurrentOK /\ ~resp.data.stale /\ resp.data.raw_reading.volume_l.k = "num"
        /\ resp.data.limits_l.max_l = JNull /\ resp.data.limits_l.min_l = JNull) =>
       resp.data.tank_status = "OK" /\ resp.data.tank_alert_message = "Normal"
  /\ \A c \in LevelCards :
       (c.params.upper_safe_limit_pct = JNull /\ c.params.lower_safe_limit_pct = JNull) =>
         c.metrics.status_tag = IF c.readings.ul_status \in {JNull, Str("")}
                                  THEN Str("Normal") ELSE c.readings.ul_status

\* both limits are configured and the level lies strictly between them
StrictlyBetween(c) ==
  /\ c.params.upper_safe_limit_pct.k = "num" /\ c.params.lower_safe_limit_pct.k = "num"
  /\ c.metrics.level_pct.v < c.params.upper_safe_limit_pct.v
  /\ c.metrics.level_pct.v > c.params.lower_safe_limit_pct.v

Applied == resp.endpoint = "geometry" /\ resp.status = 200

\* pi (D/2)^2 L * 1000 in dL
FullCylinder(D, L) == RoundDiv(31416 * D * D * L, 4000)

\* the three edge cases of a returned volume v
EdgeCases(D, L, h, v) ==
  /\ h <= 0 => v = Num(0)
  /\ (D.v > 0 /\ L.v > 0 /\ h >= D.v) => v = Num(FullCylinder(D.v, L.v))
  /\ (D.v <= 0 \/ L.v <= 0) => v = Num(0)

\* C12 as stated: every copy returns 0 for h <= 0, the full volume for
\* h >= D, and 0 whenever D <= 0 or L <= 0.
C12_Original ==
  (Applied /\ IsFinite(resp.D) /\ IsFinite(resp.L)) =>
    /\ EdgeCases(resp.D, resp.L, resp.h1, resp.litres1)
    /\ EdgeCases(resp.D, resp.L, resp.h2, resp.litres2)
    /\ EdgeCases(resp.D, resp.L, resp.h1, resp.current1)
    /\ EdgeCases(resp.D, resp.L, resp.h2, resp.current2)
    /\ EdgeCases(resp.D, resp.L, resp.h1, resp.geometry1)
    /\ EdgeCases(resp.D, resp.L, resp.h2, resp.geometry2)

\* 0 <= v1 <= v2 <= full
MonotoneBounded(v1, v2, full) ==
  /\ v1.k = "num" /\ v2.k = "num"
  /\ 0 <= v1.v /\ v1.v <= v2.v /\ v2.v <= full

\* C13: for D > 0, L > 0 and 0 <= h1 < h2 <= D, 0 <= V(h1) <= V(h2) <= full
\* volume, for every copy; D = 2 m, L = 5 m, h = 1 m gives 7854.0 L.
C13_MonotoneBounded ==
  (Applied /\ IsFinite(resp.D) /\ IsFinite(resp.L) /\ resp.D.v > 0 /\ resp.L.v > 0
     /\ 0 <= resp.h1 /\ resp.h1 < resp.h2 /\ resp.h2 <= resp.D.v) =>
    LET full == FullCylinder(resp.D.v, resp.L.v)
    IN /\ MonotoneBounded(resp.litres1, resp.litres2, full)
       /\ MonotoneBounded(resp.current1, resp.current2, full)
       /\ MonotoneBounded(resp.geometry1, resp.geometry2, full)
       /\ (resp.D = Num(20) /\ resp.L = Num(50) /\ resp.h1 = 10) =>
            /\ resp.litres1 = Num(78540)
            /\ resp.current1 = Num(78540)
            /\ resp.geometry1 = Num(78540)

\* the half-full 2 m x 5 m tank against the full one
C13_Witness ==
  /\ Applied
  /\ resp.D = Num(20) /\ resp.L = Num(50) /\ resp.h1 = 10 /\ resp.h2 = 20
  /\ resp.litres1 = Num(78540) /\ resp.litres2 = Num(157080)
  /\ resp.geometry1 = Num(78540) /\ resp.geometry2 = Num(157080)


\* C14 as stated: the volume function fails with an error exactly when D or
\* L is not finite, and returns a number for every finite input.
C14_GeometryErrorIffNonFinite ==
  Applied =>
    /\ (~IsFinite(resp.D) \/ ~IsFinite(resp.L)) <=> Threw(resp.litres1)
    /\ (~IsFinite(resp.D) \/ ~IsFinite(resp.L)) <=> Threw(resp.litres2)


(***************************************************************************)
(* The fleet-wide queries (SpecFleet).                                      *)
(***************************************************************************)
\* the rows of a served GET /api/tank-current/all
FleetRows ==
  IF resp.endpoint = "tank-current-all" /\ resp.status = 200
    THEN {resp.data[k] : k \in DOMAIN resp.data}
    ELSE {}

\* the tank of the row has a Tank_Parameters row / its device has a reading
HasGeometry(tankNo) == \E p \in Tank_Parameters : p.tank_no = tankNo
HasReading(deviceId) == ReadingsOf(deviceId) # {}

\* C18 as stated: in the fleet-wide query a tank with geometry and no reading
\* has status Unknown and null volume fields.
C18_Original ==
  \A d \in FleetRows :
    (HasGeometry(d.tank_no) /\ ~HasReading(d.device_id)) =>
      /\ d.tank_status = "Unknown"
      /\ d.raw_reading.volume_l = JNull
      /\ d.effective.volume_l = JNull
      /\ d.effective.fill_percentage = JNull

\* C18 amended: in GET /api/tank-current/all a tank with geometry and no
\* reading has no timestamp, so the staleness guard overrides it: stale,
\* status Inactive, alert "No reading in last 30 minutes", effective volume 0,
\* fill percentage 0 when the capacity is positive and null otherwise; only
\* the raw depth and the raw volume are null.
C18_NoReadingIsInactive ==
  \A d \in FleetRows :
    (HasGeometry(d.tank_no) /\ ~HasReading(d.device_id)) =>
      /\ Overridden(d)
      /\ d.last_updated = JNull
      /\ d.minutes_since_last = JNull
      /\ d.raw_reading.water_depth_m = JNull
      /\ d.raw_reading.volume_l = JNull
      /\ d.effective.fill_percentage =
           IF d.geometry.capacity_l.k = "num" /\ d.geometry.capacity_l.v > 0
             THEN Num(0) ELSE JNull

\* the configured cylinder that has never sent a reading, in the fleet list
C18_Witness ==
  \E d \in FleetRows :
    /\ d.tank_no = "T1" /\ HasGeometry("T1") /\ ~HasReading(d.device_id)
    /\ d.geometry.capacity_l = Num(15708)
    /\ d.tank_status = "Inactive"
    /\ d.effective.volume_l = Num(0)
    /\ d.effective.fill_percentage = Num(0)

\* C19 as stated: GET /api/tank-current/all and GET /api/tanks/cards return a
\* record for every tank of Master_Tables, with or without a Tank_Parameters
\* row and with or without a reading.
C19_FleetComplete ==
  (resp.endpoint \in {"tank-current-all", "cards"} /\ resp.status = 200) =>
    \A i \in DOMAIN Master_Tables :
      \E k \in DOMAIN resp.data : resp.data[k].device_id = Master_Tables[i].device_id

\* C20 as stated: a tank with a reading and no Tank_Parameters row has a null
\* capacity and null depth, volume and fill fields, whatever the tank and
\* however old the reading.
C20_NoGeometryAllNull ==
  /\ \A d \in FleetRows :
       (HasReading(d.device_id) /\ ~HasGeometry(d.tank_no)) =>
         /\ d.geometry.capacity_l = JNull
         /\ d.raw_reading.water_depth_m = JNull
         /\ d.raw_reading.volume_l = JNull
         /\ d.effective.volume_l = JNull
         /\ d.effective.fill_percentage = JNull
  /\ (resp.endpoint = "cards" /\ resp.status = 200) =>
       \A k \in DOMAIN resp.data :
         ~HasGeometry(resp.data[k].tank_no) =>
           /\ resp.data[k].metrics.capacity_l # 0
           /\ resp.data[k].metrics.level_pct = JNull
           /\ resp.data[k].metrics.working_volume_l = JNull
           /\ resp.data[k].metrics.free_volume_l = JNull


(***************************************************************************)
(* Totality and purity of the engine.                                       *)
(***************************************************************************)
\* C21 as stated: for every stored row buildTankResponseRow returns a record
\* and never throws; a timestamp that is present and unparseable gives
\* stale = true and minutes_since_last = null.
C21_Totality ==
  (resp.endpoint = "tank-current" /\ resp.device_id \in DeviceIds) =>
    /\ resp.status = 200
    /\ \A r \in ReadingsOf(resp.device_id) :
         r.date_time = InvalidDate =>
           resp.data.stale = TRUE /\ resp.data.minutes_since_last = JNull


\* the tank of a device
TankOf(deviceId) ==
  Master_Tables[CHOOSE i \in DOMAIN Master_Tables :
                  Master_Tables[i].device_id = deviceId].tank_no

\* C22 as stated: computing the metrics of a tank leaves the stored state
\* unchanged, and no computed record is persisted and later served in place
\* of a fresh computation.
C22_SideEffectFree ==
  [][/\ (resp'.endpoint = "update-data" /\ resp'.status = 200) =>
          UNCHANGED <<Tank_Parameters, Transaction_Table, tank_status>>
     /\ (resp'.endpoint \in {"tank-status", "device-latest"} /\ resp'.status = 200) =>
          LatestStatus(tank_status, TankOf(resp'.device_id)) = {}]_vars


(***************************************************************************)
(* The write path (SpecWrite).                                              *)
(***************************************************************************)
\* currentLevel of the tank_status row that update-data computes from the
\* fields of a reading
StatusLevelOf(r) ==
  updateDataRow([device_id |-> r.device_id, tank_no |-> r.tank_no, location |-> r.location,
                 ultra_height |-> r.ultra_height, date_time |-> r.date_time],
                Tank_Parameters, <<>>, <<>>).row.currentLevel

\* every stored reading has its tank_status row, written in the order in
\* which the readings were accepted
WrittenInOrder ==
  /\ inflight = <<>>
  /\ Len(tank_status) = Len(Transaction_Table)
  /\ \A i \in DOMAIN Transaction_Table :
       /\ tank_status[i].tank_no = Transaction_Table[i].tank_no
       /\ tank_status[i].currentLevel = StatusLevelOf(Transaction_Table[i])
  /\ \A i, j \in DOMAIN Transaction_Table :
       i # j => Transaction_Table[i].ultra_height # Transaction_Table[j].ultra_height

\* C23 as stated: a fleet-wide query returns exactly one record per tank,
\* and, every reading having its tank_status row written in the order of
\* acceptance, the status endpoint serves the level of the same reading that
\* tank-current takes as the latest (the one with the greatest timestamp).
C23_LatestUnambiguous ==
  /\ (resp.endpoint = "tank-current-all" /\ resp.status = 200) =>
       \A i \in DOMAIN Master_Tables :
         Cardinality({k \in DOMAIN resp.data :
                        resp.data[k].device_id = Master_Tables[i].device_id}) = 1
  /\ (resp.endpoint = "tank-status" /\ resp.status = 200 /\ WrittenInOrder
        /\ LatestStatus(tank_status, TankOf(resp.device_id)) # {}) =>
       \A r \in ReadingsOf(resp.device_id) :
         resp.data[1].currentLevel = Num(StatusLevelOf(r))

\* C25 as stated: two readings of a tank accepted one after the other, both
\* update-data calls completed: the tank_status row with the greatest id was
\* computed from the second reading.
C25_WriteOrder ==
  (inflight = <<>> /\ Len(Transaction_Table) = 2 /\ Len(tank_status) = 2
     /\ Transaction_Table[1].tank_no = Transaction_Table[2].tank_no
     /\ Transaction_Table[1].ultra_height # Transaction_Table[2].ultra_height) =>
    \A i \in LatestStatus(tank_status, Transaction_Table[2].tank_no) :
      tank_status[i].currentLevel = StatusLevelOf(Transaction_Table[2])

\* every stored reading has a tank_status row computed from it
InStep ==
  \A i \in DOMAIN Transaction_Table :
    \E j \in DOMAIN tank_status :
      /\ tank_status[j].tank_no = Transaction_Table[i].tank_no
      /\ tank_status[j].currentLevel = StatusLevelOf(Transaction_Table[i])

\* C26 as stated: every reading accepted by POST /api/transactions is
\* followed by a tank_status row computed from it: once no update-data call
\* is on its way, the stored readings and the derived rows are in step.
C26_NeverOutOfStep == inflight = <<>> => InStep


(***************************************************************************)
(* The linear level model (SpecLinear).                                     *)
(***************************************************************************)
\* the cards of a served GET /api/cards
Cards ==
  IF resp.endpoint = "cards" /\ resp.status = 200
    THEN {resp.data[k] : k \in DOMAIN resp.data}
    ELSE {}

\* C24: for every capacity >= 0 and computed working volume, free_volume_l is
\* max(capacity - volume, 0) to the nearest litre: it is never negative, and
\* volume + free volume is the capacity up to the rounding (half a litre).
C24_FreeVolume ==
  \A c \in Cards :
    (c.metrics.working_volume_l.k = "num" /\ c.metrics.capacity_l >= 0) =>
      /\ c.metrics.free_volume_l.k = "num"
      /\ c.metrics.free_volume_l.v >= 0
      /\ c.metrics.working_volume_l.v <= 10 * c.metrics.capacity_l
      /\ Abs(10 * c.metrics.free_volume_l.v + c.metrics.working_volume_l.v
               - 10 * c.metrics.capacity_l) <= 5

\* capacity 1001 L, height 3 m, distance 1 m: 667.3 L in the tank, 334 L free
C24_Witness ==
  \E c \in Cards :
    /\ c.metrics.capacity_l = 1001
    /\ c.params.height_m = Num(30)
    /\ c.readings.ultra_height = Num(10)
    /\ c.metrics.working_volume_l = Num(6673)
    /\ c.metrics.free_volume_l = Num(334)

\* C29: with a height H > 0, a capacity >= 0 and a distance present (any
\* value), 0 <= level_pct <= 100 and 0 <= working_volume_l <= capacity_l,
\* the level is 100 % at distance <= 0 and 0 % at distance >= H; with H 0 or
\* absent, or the distance absent, level_pct, working_volume_l and
\* free_volume_l are null.
C29_LinearLevel ==
  \A c \in Cards :
    IF c.params.height_m.k = "num" /\ c.params.height_m.v > 0
       /\ c.readings.ultra_height.k = "num"
      THEN /\ c.metrics.level_pct.k = "num"
           /\ c.metrics.working_volume_l.k = "num"
           /\ 0 <= c.metrics.level_pct.v /\ c.metrics.level_pct.v <= 1000
           /\ 0 <= c.metrics.working_volume_l.v
           /\ c.metrics.working_volume_l.v <= 10 * c.metrics.capacity_l
           /\ c.readings.ultra_height.v <= 0 => c.metrics.level_pct = Num(1000)
           /\ c.readings.ultra_height.v >= c.params.height_m.v => c.metrics.level_pct = Num(0)
      ELSE /\ c.metrics.level_pct = JNull
           /\ c.metrics.working_volume_l = JNull
           /\ c.metrics.free_volume_l = JNull

\* a distance of -0.3 m in the 2 m tank: the level is 100 %, not 115 %
C29_Witness ==
  \E c \in Cards :
    /\ c.params.height_m = Num(20)
    /\ c.readings.ultra_height = Num(0 - 3)
    /\ c.metrics.capacity_l = 15708
    /\ c.metrics.level_pct = Num(1000)
    /\ c.metrics.working_volume_l = Num(157080)


(***************************************************************************)
(* The two status pipelines (SpecEngine).                                   *)
(***************************************************************************)
\* C27 as stated: for the same Tank_Parameters row and the same fresh
\* reading, the volume, tank_status and tank_alert_message that update-data
\* stores are the raw volume, tank_status and tank_alert_message that
\* buildTankResponseRow computes.
C27_PipelinesAgree ==
  UpdateOK =>
    \A i \in DOMAIN Master_Tables :
      Master_Tables[i].tank_no = resp.tank_no =>
        \A row \in JoinedRows(Master_Tables[i], Tank_Parameters, Transaction_Table) :
          LET live == buildTankResponseRow(row, now)
          IN (~Threw(live) /\ live.stale = FALSE) =>
               /\ live.raw_reading.volume_l = Num(resp.stored.currentLevel)
               /\ live.tank_status = resp.stored.tank_status
               /\ live.tank_alert_message = resp.stored.tank_alert_message


(***************************************************************************)
(* POST / PATCH / GET /api/tank-update (tankUpdate.js): one transaction     *)
(* over tanks_master and tank_specifications.  One column of each table is  *)
(* modelled (imei, diameter_mm); the handler treats the other columns of    *)
(* masterFieldMap and specFieldMap in the same loop.                        *)
(***************************************************************************)
UpdateTankNos == {"T1", "T2"}

Imeis == {Str("A"), Str("B")}

DiametersMm == {Num(1000), Num(2000)}

\* the tables with at most one row per tank_no
TableOver(col, values) ==
  LET row(t, v) == [tank_no |-> t] @@ (col :> v)
  IN UNION {{{row("T1", v1), row("T2", v2)}, {row("T1", v1)}, {row("T2", v2)}, {}}
            : v1 \in values, v2 \in values}

\* the request fields as readField returns them (body first, then query);
\* tank_no "" stands for a tank_no that is absent or empty
TankUpdateRequests ==
  [tank_no : {""} \cup UpdateTankNos,
   imei : {JUndef} \cup Imeis,
   diameter_mm : {JUndef} \cup DiametersMm]

\* the awaited call that rejects, and whether it rejects because the
\* connection is lost (every later call on the connection rejects as well)
Faults ==
  {[at |-> "none", lost |-> FALSE]} \cup
  [at : {"getConnection", "beginTransaction", "master", "spec", "commit"}, lost : BOOLEAN]

\* UPDATE table SET col = value WHERE tank_no = tank_no
runUpdate(table, col, value, tank_no) ==
  {IF r.tank_no = tank_no THEN [r EXCEPT ![col] = value] ELSE r : r \in table}

\* affectedRows of that UPDATE: the rows matched by the WHERE clause
affectedRows(table, tank_no) == Cardinality({r \in table : r.tank_no = tank_no})

\* what the client sees when the async handler rejects: Express 4 leaves
\* the request unanswered, Express 5 hands the error to its default handler
RejectedHandler ==
  {[status |-> 0, error |-> "UNHANDLED_REJECTION"],
   [status |-> 500, error |-> "Internal Server Error"]}

\* the calls the handler makes for this request
FaultApplies(req, fault) ==
  IF req.tank_no = "" \/ (req.imei = JUndef /\ req.diameter_mm = JUndef)
    THEN fault.at = "none"
    ELSE /\ fault.at = "master" => req.imei # JUndef
         /\ fault.at = "spec" => req.diameter_mm # JUndef

\* the outcomes of the handler after its two 400 checks: the committed tables,
\* the response, and the connections taken from and given back to the pool
tankUpdateOutcomes(req, fault, master, spec) ==
  LET masterAfter == IF req.imei # JUndef
                       THEN runUpdate(master, "imei", req.imei, req.tank_no) ELSE master
      specAfter == IF req.diameter_mm # JUndef
                     THEN runUpdate(spec, "diameter_mm", req.diameter_mm, req.tank_no) ELSE spec
      masterAffected == IF req.imei # JUndef THEN affectedRows(master, req.tank_no) ELSE 0
      specAffected == IF req.diameter_mm # JUndef THEN affectedRows(spec, req.tank_no) ELSE 0
      unchanged == [master |-> master, spec |-> spec]
      committed == [master |-> masterAfter, spec |-> specAfter]
  IN IF fault.at = "getConnection"
       THEN {unchanged @@ [response |-> r, acquired |-> 0, released |-> 0]
             : r \in RejectedHandler}
     ELSE IF fault.at = "none"
       THEN {committed @@
             [response |-> IF masterAffected = 0 /\ specAffected = 0
                             THEN [status |-> 404, error |-> "TANK_NOT_FOUND"]
                             ELSE [status |-> 200, error |-> ""],
              acquired |-> 1, released |-> 1]}
     ELSE \* catch: rollback, then 500; finally: release
          LET tables == IF fault.at = "commit" /\ fault.lost
                          THEN {unchanged, committed} ELSE {unchanged}
              responses == IF fault.lost
                             THEN RejectedHandler
                             ELSE {[status |-> 500, error |-> "DATABASE_ERROR"]}
          IN {t @@ [response |-> r, acquired |-> 1, released |-> 1]
              : t \in tables, r \in responses}

handleTankUpdate(req, fault) ==
  /\ FaultApplies(req, fault)
  /\ IF req.tank_no = ""
       THEN /\ resp' = [endpoint |-> "tank-update", status |-> 400,
                        error |-> "tank_no is required", req |-> req, rejected |-> "none"]
            /\ UNCHANGED tankUpdateVars
     ELSE IF req.imei = JUndef /\ req.diameter_mm = JUndef
       THEN /\ resp' = [endpoint |-> "tank-update", status |-> 400,
                        error |-> "NO_FIELDS_TO_UPDATE", req |-> req, rejected |-> "none"]
            /\ UNCHANGED tankUpdateVars
     ELSE \E out \in tankUpdateOutcomes(req, fault, tanks_master, tank_specifications) :
            /\ tanks_master' = out.master
            /\ tank_specifications' = out.spec
            /\ pool' = pool + out.acquired - out.released
            /\ resp' = [endpoint |-> "tank-update", req |-> req, rejected |-> fault.at]
                       @@ out.response
  /\ UNCHANGED <<Tank_Parameters, Transaction_Table, tank_status, inflight, now>>

InitTankUpdate ==
  /\ Tank_Parameters = {}
  /\ Transaction_Table = <<>>
  /\ tank_status = <<>>
  /\ inflight = <<>>
  /\ now = 0
  /\ resp = [endpoint |-> "none", status |-> 0]
  /\ tanks_master \in TableOver("imei", Imeis)
  /\ tank_specifications \in TableOver("diameter_mm", DiametersMm)
  /\ pool = 0

NextTankUpdate == \E req \in TankUpdateRequests, fault \in Faults : handleTankUpdate(req, fault)

SpecTankUpdate == InitTankUpdate /\ [][NextTankUpdate]_vars

\* C28 as stated: when either UPDATE of handleTankUpdate fails, neither table
\* is changed and the response is 500; a 200 response means that both
\* requested updates were committed; and after a 200, 404 or 500 response
\* the connection is back in the pool.
C28_AtomicUpdate ==
  [][resp'.endpoint = "tank-update" =>
       /\ resp'.rejected \in {"master", "spec"} =>
            /\ tanks_master' = tanks_master
            /\ tank_specifications' = tank_specifications
            /\ resp'.status = 500
       /\ resp'.status = 200 =>
            /\ resp'.req.imei # JUndef =>
                 tanks_master' = runUpdate(tanks_master, "imei", resp'.req.imei, resp'.req.tank_no)
            /\ resp'.req.diameter_mm # JUndef =>
                 tank_specifications' =
                   runUpdate(tank_specifications, "diameter_mm",
                             resp'.req.diameter_mm, resp'.req.tank_no)
       /\ resp'.status \in {200, 404, 500} => pool' = 0]_vars


(***************************************************************************)
(* Pagination of the SMS-log router (/api/tank/sms-logs) and of the reports *)
(* router (/api/tank/logs): the page and limit query strings, parseInt,     *)
(* the || defaults and the Math.max / Math.min clamps.  A query string is a *)
(* sequence of characters.                                                  *)
(***************************************************************************)
Digits == {"0", "1"}

QueryChars == {"-", "a"} \cup Digits

QueryStrings ==
  {<<>>} \cup {<<a>> : a \in QueryChars} \cup {<<a, b>> : a, b \in QueryChars}
         \cup {<<a, b, c>> : a, b, c \in QueryChars}

\* req.query.page / req.query.limit: absent, or a string
QueryValues == {JUndef} \cup {Str(q) : q \in QueryStrings}

\* the COUNT(*) of the count query
Totals == {0, 1, 25}

DigitValue(c) == IF c = "1" THEN 1 ELSE 0

\* the value of the longest prefix of digits of q, after the digits read so far
RECURSIVE leadingDigits(_, _)
leadingDigits(q, acc) ==
  IF q = <<>> \/ Head(q) \notin Digits
    THEN acc
    ELSE leadingDigits(Tail(q), acc * 10 + DigitValue(Head(q)))

\* parseInt(value): an optional sign, then the leading digits; NaN without one
parseInt(value) ==
  IF value.k # "str" THEN JNaN
  ELSE LET q == value.v
           negative == q # <<>> /\ Head(q) = "-"
           body == IF negative THEN Tail(q) ELSE q
       IN IF body = <<>> \/ Head(body) \notin Digits
            THEN JNaN
            ELSE Num((IF negative THEN 0 - 1 ELSE 1) * leadingDigits(body, 0))

\* parsed || fallback: NaN and 0 are falsy
orDefault(parsed, fallback) ==
  IF parsed = JNaN \/ parsed = Num(0) THEN fallback ELSE parsed.v

\* Math.ceil(total / limit) for total >= 0 and limit # 0
ceilOfQuotient(total, limit) ==
  IF limit > 0 THEN (total + limit - 1) \div limit
               ELSE 0 - (total \div (0 - limit))

\* page, limit and offset of the SMS-log endpoint
smsLogPaging(query) ==
  LET page == Max(orDefault(parseInt(query.page), 1), 1)
      limit == Min(orDefault(parseInt(query.limit), 10), 100)
  IN [page |-> page, limit |-> limit, offset |-> (page - 1) * limit]

\* page, limit and offset of the reports endpoint
reportsPaging(query) ==
  LET page == Max(orDefault(parseInt(query.page), 1), 1)
      limit == Max(orDefault(parseInt(query.limit), 10), 1)
  IN [page |-> page, limit |-> limit, offset |-> (page - 1) * limit]

\* the data query with LIMIT ? OFFSET ?, then the response; MySQL rejects a
\* negative LIMIT or OFFSET and the handler's catch answers 500
pagedResponse(endpoint, query, total, paging) ==
  IF paging.limit < 0 \/ paging.offset < 0
    THEN [endpoint |-> endpoint, status |-> 500, query |-> query, sql |-> paging,
          pagination |-> JNull]
    ELSE [endpoint |-> endpoint, status |-> 200, query |-> query, sql |-> paging,
          pagination |-> [page |-> paging.page, limit |-> paging.limit, total |-> total,
                          totalPages |-> ceilOfQuotient(total, paging.limit)]]

GetSmsLog ==
  /\ resp.endpoint = "paged"
  /\ resp' = pagedResponse("sms-log", resp.query, resp.total, smsLogPaging(resp.query))
  /\ UNCHANGED <<Tank_Parameters, Transaction_Table, tank_status, inflight, now>>
  /\ UNCHANGED tankUpdateVars

GetReports ==
  /\ resp.endpoint = "paged"
  /\ resp' = pagedResponse("reports", resp.query, resp.total, reportsPaging(resp.query))
  /\ UNCHANGED <<Tank_Parameters, Transaction_Table, tank_status, inflight, now>>
  /\ UNCHANGED tankUpdateVars

InitPaging ==
  /\ NoTankUpdate
  /\ Tank_Parameters = {}
  /\ Transaction_Table = <<>>
  /\ tank_status = <<>>
  /\ inflight = <<>>
  /\ now = 0
  /\ \E page \in QueryValues, limit \in QueryValues, total \in Totals :
       resp = [endpoint |-> "paged", status |-> 0,
               query |-> [page |-> page, limit |-> limit], total |-> total]

NextPaging == GetSmsLog \/ GetReports

SpecPaging == InitPaging /\ [][NextPaging]_vars

\* C30 as stated: for every page and limit query value the paginated
\* endpoints pass to SQL an integer LIMIT >= 1 (at most 100 for the SMS log)
\* and an OFFSET >= 0 equal to (page - 1) * limit with page >= 1, and report
\* totalPages = ceil(total / limit).
C30_PaginationBounds ==
  resp.endpoint \in {"sms-log", "reports"} =>
    /\ resp.sql.limit >= 1
    /\ resp.endpoint = "sms-log" => resp.sql.limit <= 100
    /\ resp.sql.page >= 1
    /\ resp.sql.offset >= 0
    /\ resp.sql.offset = (resp.sql.page - 1) * resp.sql.limit
    /\ resp.status = 200
    /\ resp.pagination.totalPages * resp.sql.limit >= resp.pagination.total
    /\ (resp.pagination.totalPages - 1) * resp.sql.limit < resp.pagination.total

====
